---- MODULE Spec2Model ----
(***************************************************************************)
(* Model of the lyric-vault matching and ranking engine:                   *)
(*   src/src/utils/rhyme.ts     extractRhymePatterns, rhymeMatch,          *)
(*                              calculateRhymeScore                        *)
(*   src/src/commands/list.ts   calculateMatchScore, generateAdaptations,  *)
(*                              suggestCommand          (CLI pipeline)     *)
(*   src/unnamed/part_000       the Electron main-process copy of the      *)
(*                              engine and the ai:getSuggestions handler   *)
(*                                                                         *)
(* JavaScript strings are modelled as sequences of one-character strings,  *)
(* JavaScript numbers as IEEE-754 binary64 values (53-bit significand,     *)
(* round to nearest, ties to even) so that 0.35 + 0.30 + 0.25 + 0.10 and   *)
(* the comparisons against 0.1 and 0.3 come out as they do in the program. *)
(***************************************************************************)
EXTENDS Integers, Sequences, FiniteSets, TLC

(***************************************************************************)
(* Unbounded naturals as little-endian sequences of limbs (TLC integers    *)
(* are 32 bits wide, a binary64 significand is 53).  <<>> is zero.  The    *)
(* operators avoid recursion where they can: carries and borrows are       *)
(* found by look-ahead instead of rippling.                                *)
(***************************************************************************)
LimbBits == 14

Base == 16384

Pow2(k) ==
  <<1, 2, 4, 8, 16, 32, 64, 128, 256, 512, 1024, 2048, 4096, 8192,
    16384>>[k + 1]

MaxOf(x, y) == IF x >= y THEN x ELSE y

MinOf(x, y) == IF x <= y THEN x ELSE y

Limb(a, i) == IF i >= 1 /\ i <= Len(a) THEN a[i] ELSE 0

\* the values f[1], ..., f[n] as a sequence
SeqOf(f, n) == IF n <= 0 THEN <<>> ELSE SubSeq(f, 1, n)

\* e, with v evaluated first.  TLC evaluates a definition where its value is
\* first needed, nested inside whatever it is evaluating there; a chain of
\* statements is kept in program order, and shallow, by evaluating each
\* result before the next statement uses it
Eval(v, e) == IF v = v THEN e ELSE e

\* drop the zero limbs at the top
BNorm(a) ==
  LET nz == {i \in 1..Len(a) : a[i] # 0}
  IN  IF nz = {} THEN <<>>
      ELSE SubSeq(a, 1, CHOOSE i \in nz : \A j \in nz : j <= i)

BFromInt(n) == BNorm(<<n % Base, (n \div Base) % Base, n \div (Base * Base)>>)

\* a + b: the carry into limb i is decided by the nearest lower limb that
\* generates one, provided every limb in between propagates it
BAdd(a, b) ==
  IF a = <<>> THEN b
  ELSE IF b = <<>> THEN a
  ELSE LET n    == MaxOf(Len(a), Len(b)) + 1
           s    == SeqOf([i \in 1..n |-> Limb(a, i) + Limb(b, i)], n)
           c(i) == IF \E j \in 1..(i - 1) :
                        /\ s[j] >= Base
                        /\ \A k \in (j + 1)..(i - 1) : s[k] = Base - 1
                   THEN 1 ELSE 0
       IN  BNorm(SeqOf([i \in 1..n |-> (s[i] + c(i)) % Base], n))

\* a - b for a >= b, with the borrows found the same way
BSub(a, b) ==
  IF b = <<>> THEN a
  ELSE LET n    == Len(a)
           d    == SeqOf([i \in 1..n |-> Limb(a, i) - Limb(b, i)], n)
           w(i) == IF \E j \in 1..(i - 1) :
                        d[j] < 0 /\ \A k \in (j + 1)..(i - 1) : d[k] = 0
                   THEN 1 ELSE 0
       IN  BNorm(SeqOf([i \in 1..n |-> (d[i] - w(i) + Base) % Base], n))

\* -1, 0, 1 as a < b, a = b, a > b (both normalised)
BCmp(a, b) ==
  IF Len(a) < Len(b) THEN -1
  ELSE IF Len(a) > Len(b) THEN 1
  ELSE LET df == {i \in 1..Len(a) : a[i] # b[i]}
       IN  IF df = {} THEN 0
           ELSE LET t == CHOOSE i \in df : \A j \in df : j <= i
                IN  IF a[t] < b[t] THEN -1 ELSE 1

BShlLimbs(a, k) ==
  IF a = <<>> THEN <<>> ELSE SeqOf([j \in 1..k |-> 0], k) \o a

\* a * s for 0 <= s < Base: the low halves of the limb products plus the
\* high halves one limb up
BMulSmall(a, s) ==
  IF a = <<>> \/ s = 0 THEN <<>>
  ELSE BAdd(BNorm(SeqOf([i \in 1..Len(a) |-> (a[i] * s) % Base], Len(a))),
            BShlLimbs(BNorm(SeqOf([i \in 1..Len(a) |->
                                     (a[i] * s) \div Base], Len(a))), 1))

\* a * b for b of at most 4 limbs (every significand is): column sums of
\* the limb products, each below 2^30, split into three limbs
BMul(a, b) ==
  LET n      == Len(a) + 4
      col(k) == Limb(a, k) * Limb(b, 1) + Limb(a, k - 1) * Limb(b, 2)
                + Limb(a, k - 2) * Limb(b, 3) + Limb(a, k - 3) * Limb(b, 4)
      sum(cols) ==
        BAdd(BAdd(BNorm(SeqOf([k \in 1..n |-> cols[k] % Base], n)),
                  BShlLimbs(BNorm(SeqOf([k \in 1..n |->
                                           (cols[k] \div Base) % Base], n)),
                            1)),
             BShlLimbs(BNorm(SeqOf([k \in 1..n |->
                                      cols[k] \div (Base * Base)], n)), 2))
  IN  sum(SeqOf([k \in 1..n |-> col(k)], n))

\* a * 2^k
BShl(a, k) == BShlLimbs(BMulSmall(a, Pow2(k % LimbBits)), k \div LimbBits)

\* floor(a / 2^k)
BShr(a, k) ==
  LET q == k \div LimbBits
      r == k % LimbBits
  IN  BNorm(SeqOf([i \in 1..(Len(a) - q) |->
                     (Limb(a, i + q) \div Pow2(r))
                     + (Limb(a, i + q + 1) % Pow2(r)) * Pow2(LimbBits - r)],
                  Len(a) - q))

BBitLen(a) ==
  IF a = <<>> THEN 0
  ELSE LimbBits * (Len(a) - 1)
       + (CHOOSE k \in 1..LimbBits :
            Pow2(k - 1) <= a[Len(a)] /\ a[Len(a)] < Pow2(k))

\* bit i (0 = least significant) of a
BBit(a, i) == (Limb(a, (i \div LimbBits) + 1) \div Pow2(i % LimbBits)) % 2

\* some bit of a below bit i is set
BAnyBelow(a, i) ==
  \/ \E j \in 1..(i \div LimbBits) : Limb(a, j) # 0
  \/ Limb(a, (i \div LimbBits) + 1) % Pow2(i % LimbBits) # 0

BOdd(a) == a # <<>> /\ a[1] % 2 = 1

\* floor(r / d) for r < d * Base and d with its top limb >= Base / 2: the
\* estimate from the leading limbs is at most 2 too large (Knuth 4.3.1 D)
BDivDigit(r, d) ==
  LET n        == Len(d)
      try(est) == IF BCmp(BMulSmall(d, est), r) <= 0 THEN est
                  ELSE IF BCmp(BMulSmall(d, est - 1), r) <= 0 THEN est - 1
                  ELSE est - 2
  IN  try(MinOf(Base - 1, (Limb(r, n + 1) * Base + Limb(r, n)) \div d[n]))

\* schoolbook long division, one limb of a per step from the top: i is the
\* limb to bring down, r the running remainder (always below d), q the
\* quotient limbs found so far; <<quotient, remainder>>
RECURSIVE BDivFrom(_, _, _, _, _)
BDivFrom(a, d, i, q, r) ==
  IF i = 0 THEN <<BNorm(q), r>>
  ELSE LET next(qi, r2) ==
             Eval(r2, BDivFrom(a, d, i - 1, <<qi>> \o q, r2))
           digit(r1, qi) == Eval(qi, next(qi, BSub(r1, BMulSmall(d, qi))))
           down(r1)      == digit(r1, BDivDigit(r1, d))
       IN  down(BNorm(<<a[i]>> \o r))

\* <<floor(a / b), 2^k * (a mod b)>> for b # 0; both operands are scaled by
\* 2^k to bring the top limb of the divisor to at least Base / 2, and the
\* top Len(b) - 1 limbs of a, being below b, start as the remainder
BDiv(a, b) ==
  LET from(a1, d, n) ==
        BDivFrom(a1, d, Len(a1) - n, <<>>,
                 SubSeq(a1, Len(a1) - n + 1, Len(a1)))
      scaled(a1, d)  ==
        Eval(d, Eval(a1, from(a1, d, MinOf(Len(d) - 1, Len(a1)))))
      by(k)          == scaled(BShl(a, k), BShl(b, k))
  IN  by(LimbBits * Len(b) - BBitLen(b))

(***************************************************************************)
(* IEEE-754 binary64, non-negative finite values: [m, e] stands for        *)
(* m * 2^e with m a 53-bit significand, or m = <<>> for zero.  The         *)
(* exponent range is never approached by the engine's values (all lie in   *)
(* [0, 2]), so overflow and subnormals are not modelled.                   *)
(***************************************************************************)
Precision == 53

FZero == [m |-> <<>>, e |-> 0]

\* the binary64 nearest to M * 2^E, ties to even: with s bits to drop, round
\* up when the first dropped bit is set and either a lower one is too or the
\* kept significand is odd; a carry out of the top bit renormalises
RoundF(M, E) ==
  LET renorm(q1, s) ==
        IF BBitLen(q1) > Precision
        THEN [m |-> BShr(q1, 1), e |-> E + s + 1]
        ELSE [m |-> q1, e |-> E + s]
      drop(q, s)    ==
        renorm(IF BBit(M, s - 1) = 1 /\ (BAnyBelow(M, s - 1) \/ BOdd(q))
               THEN BAdd(q, <<1>>)
               ELSE q,
               s)
      fit(L)        ==
        IF L <= Precision
        THEN [m |-> BShl(M, Precision - L), e |-> E - (Precision - L)]
        ELSE drop(BShr(M, L - Precision), L - Precision)
  IN  IF M = <<>> THEN FZero ELSE fit(BBitLen(M))

FromInt(n) == RoundF(BFromInt(n), 0)

FOne == FromInt(1)

FMul(x, y) ==
  IF x.m = <<>> \/ y.m = <<>> THEN FZero
  ELSE RoundF(BMul(x.m, y.m), x.e + y.e)

FAdd(x, y) ==
  IF x.m = <<>> THEN y
  ELSE IF y.m = <<>> THEN x
  ELSE LET sum(e) == RoundF(BAdd(BShl(x.m, x.e - e), BShl(y.m, y.e - e)), e)
       IN  sum(MinOf(x.e, y.e))

\* x / y for y # 0: 56 extra quotient bits and a sticky bit for a non-zero
\* remainder
FDiv(x, y) ==
  IF x.m = <<>> THEN FZero
  ELSE LET sticky(qr) ==
             Eval(qr, BAdd(BAdd(qr[1], qr[1]),
                           IF qr[2] = <<>> THEN <<>> ELSE <<1>>))
       IN  Eval(y, RoundF(sticky(BDiv(BShl(x.m, 56), y.m)), x.e - y.e - 57))

\* -1, 0, 1 as x < y, x = y, x > y
FCmp(x, y) ==
  IF x.m = <<>> /\ y.m = <<>> THEN 0
  ELSE IF x.m = <<>> THEN -1
  ELSE IF y.m = <<>> THEN 1
  ELSE IF x.e < y.e THEN -1
  ELSE IF x.e > y.e THEN 1
  ELSE BCmp(x.m, y.m)

FGt(x, y) == FCmp(x, y) > 0

FLe(x, y) == FCmp(x, y) <= 0

\* Math.min(x, y)
FMin(x, y) == IF FCmp(x, y) <= 0 THEN x ELSE y

\* a numeric literal written as the decimal num/den (0.35 is Lit(35, 100)):
\* the binary64 nearest to the decimal, which is what the correctly rounded
\* quotient of the two exactly representable integers gives
Lit(num, den) == FDiv(FromInt(num), FromInt(den))

(***************************************************************************)
(* JavaScript strings: sequences of one-character strings.                 *)
(***************************************************************************)
LowerLetters ==
  <<"a", "b", "c", "d", "e", "f", "g", "h", "i", "j", "k", "l", "m",
    "n", "o", "p", "q", "r", "s", "t", "u", "v", "w", "x", "y", "z">>

UpperLetters ==
  <<"A", "B", "C", "D", "E", "F", "G", "H", "I", "J", "K", "L", "M",
    "N", "O", "P", "Q", "R", "S", "T", "U", "V", "W", "X", "Y", "Z">>

Digits == {"0", "1", "2", "3", "4", "5", "6", "7", "8", "9"}

Range(s) == {s[i] : i \in 1..Len(s)}

IsLetter(c) == c \in Range(LowerLetters) \cup Range(UpperLetters)

IsDigit(c) == c \in Digits

\* the regular-expression class \w: [A-Za-z0-9_]
IsWordChar(c) == IsLetter(c) \/ IsDigit(c) \/ c = "_"

\* the regular-expression class \s
IsSpace(c) == c \in {" ", "\t", "\n", "\r"}

toLowerChar(c) ==
  IF c \in Range(UpperLetters)
  THEN LowerLetters[CHOOSE i \in 1..Len(UpperLetters) : UpperLetters[i] = c]
  ELSE c

\* String.prototype.toLowerCase
toLowerCase(s) == SeqOf([i \in 1..Len(s) |-> toLowerChar(s[i])], Len(s))

\* s.slice(-k): the last k characters, all of s when it is shorter
sliceLast(s, k) == SubSeq(s, MaxOf(1, Len(s) - k + 1), Len(s))

\* s.endsWith(t)
endsWith(s, t) ==
  Len(t) <= Len(s) /\ SubSeq(s, Len(s) - Len(t) + 1, Len(s)) = t

\* s.includes(t)
includes(s, t) ==
  \E i \in 0..(Len(s) - Len(t)) : SubSeq(s, i + 1, i + Len(t)) = t

\* the k-th smallest element of a set of integers
NthOf(S, k) == CHOOSE i \in S : Cardinality({j \in S : j < i}) = k - 1

\* the elements of s at the indices in S, in order
AtIndices(s, S) ==
  SeqOf([k \in 1..Cardinality(S) |-> s[NthOf(S, k)]], Cardinality(S))

\* s.split(/[...]+/), the character class given by sepAt, which tells for each
\* position of s whether its character is a separator: the pieces between the
\* maximal runs of separators; a run at the very start or end of s leaves an
\* empty piece there, and the empty string splits into one empty piece
split(s, sepAt) ==
  LET n      == Len(s)
      starts == {i \in 1..n : ~sepAt[i] /\ (i = 1 \/ sepAt[i - 1])}
      end(i) == CHOOSE j \in i..n :
                  /\ \A k \in i..j : ~sepAt[k]
                  /\ (j = n \/ sepAt[j + 1])
      pieces == SeqOf([k \in 1..Cardinality(starts) |->
                         SubSeq(s, NthOf(starts, k), end(NthOf(starts, k)))],
                      Cardinality(starts))
  IN  IF n = 0 THEN << <<>> >>
      ELSE (IF sepAt[1] THEN << <<>> >> ELSE <<>>)
           \o pieces
           \o (IF sepAt[n] THEN << <<>> >> ELSE <<>>)

\* s.split(/\s+/)
splitOnSpaces(s) == split(s, [i \in 1..Len(s) |-> IsSpace(s[i])])

(***************************************************************************)
(* utils/rhyme.ts                                                          *)
(***************************************************************************)
\* the characters .replace(/[^\w\s']/g, '') keeps
KeptChar(c) == IsWordChar(c) \/ IsSpace(c) \/ c = "'"

\* a filter that lets two-character words through
LongEnoughFrom2(word) == Len(word) >= 2

\* .filter(word => word.length >= 3)
LongEnough(word) == Len(word) >= 3

extractRhymePatterns(text) ==
  LET words     == SelectSeq(splitOnSpaces(SelectSeq(toLowerCase(text), KeptChar)),
                             LongEnough)
      ending(w) == IF Len(w) >= 4 THEN sliceLast(w, 4) ELSE sliceLast(w, 3)
      endings   == SeqOf([k \in 1..Len(words) |-> ending(words[k])],
                         Len(words))
      \* seen: an ending is pushed the first time it comes up
      first     == {k \in 1..Len(words) :
                      \A j \in 1..(k - 1) : endings[j] # endings[k]}
  IN  AtIndices(endings, first)

\* Array.prototype.join
RECURSIVE join(_, _)
join(xs, sep) ==
  IF xs = <<>> THEN <<>>
  ELSE IF Len(xs) = 1 THEN xs[1]
  ELSE xs[1] \o sep \o join(Tail(xs), sep)

IsVowel(c) == c \in {"a", "e", "i", "o", "u"}

NotVowel(c) == ~IsVowel(c)

NonEmpty(s) == s # <<>>

\* p.match(/[aeiou]+/g)?.join('') || '': the maximal runs of vowels, joined
vowelsOf(p) ==
  join(SelectSeq(split(p, [i \in 1..Len(p) |-> NotVowel(p[i])]), NonEmpty), <<>>)

\* a rhymeMatch without the vowel rule
rhymeMatchBySuffix(pattern1, pattern2) ==
  \/ toLowerCase(pattern1) = toLowerCase(pattern2)
  \/ endsWith(toLowerCase(pattern2), sliceLast(toLowerCase(pattern1), 3))
  \/ endsWith(toLowerCase(pattern2), sliceLast(toLowerCase(pattern1), 2))

\* a rhymeMatch whose suffix rule looks for pattern1's endings anywhere in
\* pattern2
rhymeMatchByInclusion(pattern1, pattern2) ==
  LET p1       == toLowerCase(pattern1)
      p2       == toLowerCase(pattern2)
      p1Vowels == vowelsOf(p1)
      p2Vowels == vowelsOf(p2)
  IN  \/ p1 = p2
      \/ includes(p2, sliceLast(p1, 3)) \/ includes(p2, sliceLast(p1, 2))
      \/ /\ Len(p1Vowels) >= 2
         /\ Len(p2Vowels) >= 2
         /\ sliceLast(p1Vowels, 2) = sliceLast(p2Vowels, 2)

\* a rhymeMatch whose suffix rule also tests pattern2's endings on pattern1
rhymeMatchEitherWay(pattern1, pattern2) ==
  LET p1       == toLowerCase(pattern1)
      p2       == toLowerCase(pattern2)
      p1Vowels == vowelsOf(p1)
      p2Vowels == vowelsOf(p2)
  IN  \/ p1 = p2
      \/ endsWith(p2, sliceLast(p1, 3)) \/ endsWith(p2, sliceLast(p1, 2))
      \/ endsWith(p1, sliceLast(p2, 3)) \/ endsWith(p1, sliceLast(p2, 2))
      \/ /\ Len(p1Vowels) >= 2
         /\ Len(p2Vowels) >= 2
         /\ sliceLast(p1Vowels, 2) = sliceLast(p2Vowels, 2)

rhymeMatch(pattern1, pattern2) ==
  LET p1       == toLowerCase(pattern1)
      p2       == toLowerCase(pattern2)
      ending2  == sliceLast(p1, 2)
      ending3  == sliceLast(p1, 3)
      p1Vowels == vowelsOf(p1)
      p2Vowels == vowelsOf(p2)
  IN  IF p1 = p2 THEN TRUE
      ELSE IF endsWith(p2, ending3) \/ endsWith(p2, ending2) THEN TRUE
      ELSE IF /\ Len(p1Vowels) >= 2
              /\ Len(p2Vowels) >= 2
              /\ sliceLast(p1Vowels, 2) = sliceLast(p2Vowels, 2) THEN TRUE
      ELSE FALSE

\* a loop that does not look at the indices already matched
RECURSIVE rhymeLoopUnchecked(_, _, _, _, _)
rhymeLoopUnchecked(patterns1, patterns2, k, matches, checked) ==
  IF k > Len(patterns1) THEN <<matches, checked>>
  ELSE LET hits == {i \in 1..Len(patterns2) :
                      rhymeMatch(patterns1[k], patterns2[i])}
       IN  IF hits = {}
           THEN rhymeLoopUnchecked(patterns1, patterns2, k + 1, matches,
                                   checked)
           ELSE rhymeLoopUnchecked(patterns1, patterns2, k + 1, matches + 1,
                                   checked \cup {NthOf(hits, 1)})

\* a loop in which an element takes the last index it can, not the first
RECURSIVE rhymeLoopLastFree(_, _, _, _, _)
rhymeLoopLastFree(patterns1, patterns2, k, matches, checked) ==
  IF k > Len(patterns1) THEN <<matches, checked>>
  ELSE LET hits == {i \in 1..Len(patterns2) :
                      i \notin checked /\ rhymeMatch(patterns1[k], patterns2[i])}
       IN  IF hits = {}
           THEN rhymeLoopLastFree(patterns1, patterns2, k + 1, matches,
                                  checked)
           ELSE rhymeLoopLastFree(patterns1, patterns2, k + 1, matches + 1,
                                  checked \cup {NthOf(hits, Cardinality(hits))})

\* the loops of calculateRhymeScore from the k-th element of patterns1 on:
\* the element takes the first index of patterns2 that is not in checked and
\* that it matches, if there is one; the final <<matches, checked>>
RECURSIVE rhymeLoop(_, _, _, _, _)
rhymeLoop(patterns1, patterns2, k, matches, checked) ==
  IF k > Len(patterns1) THEN <<matches, checked>>
  ELSE LET hits == {i \in 1..Len(patterns2) :
                      i \notin checked /\ rhymeMatch(patterns1[k], patterns2[i])}
       IN  IF hits = {}
           THEN rhymeLoop(patterns1, patterns2, k + 1, matches, checked)
           ELSE rhymeLoop(patterns1, patterns2, k + 1, matches + 1,
                          checked \cup {NthOf(hits, 1)})

\* a calculateRhymeScore that divides by the longer list's length
rhymeScoreByLongerList(patterns1, patterns2) ==
  IF Len(patterns1) = 0 \/ Len(patterns2) = 0 THEN FZero
  ELSE FDiv(FromInt(rhymeLoop(patterns1, patterns2, 1, 0, {})[1]),
            FromInt(MaxOf(Len(patterns1), Len(patterns2))))

calculateRhymeScore(patterns1, patterns2) ==
  IF Len(patterns1) = 0 \/ Len(patterns2) = 0 THEN FZero
  ELSE LET matches   == rhymeLoop(patterns1, patterns2, 1, 0, {})[1]
           minLength == MinOf(Len(patterns1), Len(patterns2))
       IN  FMin(FDiv(FromInt(matches), FromInt(minLength)), FOne)

(***************************************************************************)
(* commands/list.ts: calculateMatchScore.  An analysis is a record         *)
(* [themes, rhyme_patterns, mood, imagery_tags]; a stored lyric has these  *)
(* fields and an id.                                                       *)
(***************************************************************************)
\* the rhyme weight in the place of the theme weight
themeWeightAsRhyme == Lit(30, 100)

themeWeight == Lit(35, 100)

rhymeWeight == Lit(30, 100)

moodWeight == Lit(25, 100)

imageryWeight == Lit(10, 100)

\* a weight total that misses the imagery weight
weightsWithoutImagery ==
  FAdd(FAdd(FAdd(FZero, themeWeight), rhymeWeight), moodWeight)

\* let weights = 0 and the four weights += ...Weight, which run on every call
weights ==
  FAdd(FAdd(FAdd(FAdd(FZero, themeWeight), rhymeWeight), moodWeight),
       imageryWeight)

\* a rhyme reason for every positive rhyme score
reasonThresholdZero == FZero

\* a rhyme reason only above 0.5
reasonThresholdHalf == Lit(5, 10)

\* the literal 0.3 of rhymeScore > 0.3
reasonThreshold == Lit(3, 10)

\* the literal 0.1 of score > 0.1
scoreThreshold == Lit(1, 10)

\* a.toLowerCase().includes(b.toLowerCase()) either way round
containsEitherWay(a, b) ==
  \/ includes(toLowerCase(b), toLowerCase(a))
  \/ includes(toLowerCase(a), toLowerCase(b))

\* inputs.filter(x => storeds.some(y => y includes x or x includes y))
sharedOf(inputs, storeds) ==
  LET Shared(x) == \E j \in 1..Len(storeds) : containsEitherWay(x, storeds[j])
  IN  SelectSeq(inputs, Shared)

\* a sub-score that divides by the number of shared elements
overlapScoreOverShared(shared, inputs) ==
  FMin(FDiv(FromInt(Len(shared)), FromInt(MaxOf(Len(shared), 1))), FOne)

\* Math.min(shared.length / Math.max(inputs.length, 1), 1)
overlapScore(shared, inputs) ==
  FMin(FDiv(FromInt(Len(shared)), FromInt(MaxOf(Len(inputs), 1))), FOne)

\* the character class [\s,]
IsMoodSep(c) == IsSpace(c) \/ c = ","

\* mood words split on whitespace alone
moodWordsOnSpaces(mood) == splitOnSpaces(toLowerCase(mood))

\* mood words without the empty ones
moodWordsWithoutEmpty(mood) ==
  LET words(lower) == split(lower, [i \in 1..Len(lower) |-> IsMoodSep(lower[i])])
  IN  SelectSeq(words(toLowerCase(mood)), NonEmpty)

\* mood.toLowerCase().split(/[\s,]+/)
moodWords(mood) ==
  LET words(lower) == split(lower, [i \in 1..Len(lower) |-> IsMoodSep(lower[i])])
  IN  words(toLowerCase(mood))

\* inputMoodWords.filter(word => storedMoodWords.some(storedWord =>
\*   storedWord.includes(word) || word.includes(storedWord)))
sharedMoodWords(inputMoodWords, storedMoodWords) ==
  LET Shared(word) ==
        \E j \in 1..Len(storedMoodWords) :
          \/ includes(storedMoodWords[j], word)
          \/ includes(word, storedMoodWords[j])
  IN  SelectSeq(inputMoodWords, Shared)

\* lines 100-108 and 149-157: the shared list of the theme or imagery
\* factor and the sub-score the if-block computes from it, 0 when the block
\* is skipped
overlapFactor(inputs, storeds) ==
  LET factor(shared) ==
        [shared |-> shared,
         score  |-> IF Len(shared) > 0 THEN overlapScore(shared, inputs)
                    ELSE FZero]
  IN  factor(sharedOf(inputs, storeds))

\* the four sub-scores; a factor whose if-block is skipped scores 0
themeScore(inputAnalysis, storedLyric) ==
  overlapScore(sharedOf(inputAnalysis.themes, storedLyric.themes),
               inputAnalysis.themes)

rhymeScore(inputAnalysis, storedLyric) ==
  calculateRhymeScore(inputAnalysis.rhyme_patterns, storedLyric.rhyme_patterns)

moodScore(inputAnalysis, storedLyric) ==
  IF inputAnalysis.mood # <<>> /\ storedLyric.mood # <<>>
  THEN overlapScore(sharedMoodWords(moodWords(inputAnalysis.mood),
                                    moodWords(storedLyric.mood)),
                    moodWords(inputAnalysis.mood))
  ELSE FZero

imageryScore(inputAnalysis, storedLyric) ==
  overlapScore(sharedOf(inputAnalysis.imagery_tags, storedLyric.imagery_tags),
               inputAnalysis.imagery_tags)

SharedThemesText ==
  <<"S", "h", "a", "r", "e", "d", " ", "t", "h", "e", "m", "e", "s", ":", " ">>

CompatibleRhymeText ==
  <<"C", "o", "m", "p", "a", "t", "i", "b", "l", "e", " ", "r", "h", "y",
    "m", "e", " ", "p", "a", "t", "t", "e", "r", "n", "s">>

SimilarMoodText ==
  <<"S", "i", "m", "i", "l", "a", "r", " ", "m", "o", "o", "d", ":", " ">>

MatchingImageryText ==
  <<"M", "a", "t", "c", "h", "i", "n", "g", " ", "i", "m", "a", "g", "e",
    "r", "y", ":", " ">>

CommaSpace == <<",", " ">>

\* lines 98-111: the theme block, from the running [totalScore, reasons]
themeBlock(acc, inputAnalysis, storedLyric) ==
  LET block(sharedThemes) ==
        IF Len(sharedThemes) > 0
        THEN [totalScore |->
                FAdd(acc.totalScore,
                     FMul(overlapScore(sharedThemes, inputAnalysis.themes),
                          themeWeight)),
              reasons |->
                Append(acc.reasons,
                       SharedThemesText \o join(sharedThemes, CommaSpace))]
        ELSE acc
  IN  Eval(acc, block(sharedOf(inputAnalysis.themes, storedLyric.themes)))

\* lines 113-125: the rhyme block
rhymeBlock(acc, inputAnalysis, storedLyric) ==
  LET block(score) ==
        IF FGt(score, FZero)
        THEN [totalScore |-> FAdd(acc.totalScore, FMul(score, rhymeWeight)),
              reasons |-> IF FGt(score, reasonThreshold)
                          THEN Append(acc.reasons, CompatibleRhymeText)
                          ELSE acc.reasons]
        ELSE acc
  IN  Eval(acc, block(calculateRhymeScore(inputAnalysis.rhyme_patterns,
                                          storedLyric.rhyme_patterns)))

\* lines 127-145: the mood block
moodBlock(acc, inputAnalysis, storedLyric) ==
  LET block(inputMoodWords, shared) ==
        IF Len(shared) > 0
        THEN [totalScore |->
                FAdd(acc.totalScore,
                     FMul(overlapScore(shared, inputMoodWords), moodWeight)),
              reasons |->
                Append(acc.reasons, SimilarMoodText \o storedLyric.mood)]
        ELSE acc
  IN  Eval(acc,
           IF inputAnalysis.mood # <<>> /\ storedLyric.mood # <<>>
           THEN block(moodWords(inputAnalysis.mood),
                      sharedMoodWords(moodWords(inputAnalysis.mood),
                                      moodWords(storedLyric.mood)))
           ELSE acc)

\* lines 147-160: the imagery block
imageryBlock(acc, inputAnalysis, storedLyric) ==
  LET block(sharedImagery) ==
        IF Len(sharedImagery) > 0
        THEN [totalScore |->
                FAdd(acc.totalScore,
                     FMul(overlapScore(sharedImagery,
                                       inputAnalysis.imagery_tags),
                          imageryWeight)),
              reasons |->
                Append(acc.reasons,
                       MatchingImageryText
                         \o join(sharedImagery, CommaSpace))]
        ELSE acc
  IN  Eval(acc, block(sharedOf(inputAnalysis.imagery_tags,
                               storedLyric.imagery_tags)))

\* a normalisation that returns totalScore as it is
normalizedScoreUndivided(acc) ==
  Eval(acc, [score |-> acc.totalScore, reasons |-> acc.reasons])

\* lines 162-165: weights > 0 ? totalScore / weights : 0
normalizedScore(acc) ==
  Eval(acc, [score   |-> IF FGt(weights, FZero)
                         THEN FDiv(acc.totalScore, weights)
                         ELSE FZero,
             reasons |-> acc.reasons])

calculateMatchScore(inputAnalysis, storedLyric) ==
  normalizedScore(
    imageryBlock(
      moodBlock(
        rhymeBlock(
          themeBlock([totalScore |-> FZero, reasons |-> <<>>],
                     inputAnalysis, storedLyric),
          inputAnalysis, storedLyric),
        inputAnalysis, storedLyric),
      inputAnalysis, storedLyric))

(***************************************************************************)
(* unnamed/part_000 (electron/ipc-handlers.ts): the main process's own     *)
(* copies of rhymeMatch, calculateRhymeScore and calculateMatchScore.      *)
(***************************************************************************)
ipcRhymeMatch(pattern1, pattern2) ==
  LET p1       == toLowerCase(pattern1)
      p2       == toLowerCase(pattern2)
      ending2  == sliceLast(p1, 2)
      ending3  == sliceLast(p1, 3)
      p1Vowels == vowelsOf(p1)
      p2Vowels == vowelsOf(p2)
  IN  IF p1 = p2 THEN TRUE
      ELSE IF endsWith(p2, ending3) \/ endsWith(p2, ending2) THEN TRUE
      ELSE IF /\ Len(p1Vowels) >= 2
              /\ Len(p2Vowels) >= 2
              /\ sliceLast(p1Vowels, 2) = sliceLast(p2Vowels, 2) THEN TRUE
      ELSE FALSE

RECURSIVE ipcRhymeLoop(_, _, _, _, _)
ipcRhymeLoop(patterns1, patterns2, k, matches, checked) ==
  IF k > Len(patterns1) THEN <<matches, checked>>
  ELSE LET hits == {i \in 1..Len(patterns2) :
                      /\ i \notin checked
                      /\ ipcRhymeMatch(patterns1[k], patterns2[i])}
       IN  IF hits = {}
           THEN ipcRhymeLoop(patterns1, patterns2, k + 1, matches, checked)
           ELSE ipcRhymeLoop(patterns1, patterns2, k + 1, matches + 1,
                             checked \cup {NthOf(hits, 1)})

ipcCalculateRhymeScore(patterns1, patterns2) ==
  IF Len(patterns1) = 0 \/ Len(patterns2) = 0 THEN FZero
  ELSE LET matches   == ipcRhymeLoop(patterns1, patterns2, 1, 0, {})[1]
           minLength == MinOf(Len(patterns1), Len(patterns2))
       IN  FMin(FDiv(FromInt(matches), FromInt(minLength)), FOne)

ipcThemeWeight == Lit(35, 100)

ipcRhymeWeight == Lit(3, 10)

ipcMoodWeight == Lit(25, 100)

ipcImageryWeight == Lit(1, 10)

ipcWeights ==
  FAdd(FAdd(FAdd(FAdd(FZero, ipcThemeWeight), ipcRhymeWeight), ipcMoodWeight),
       ipcImageryWeight)

ipcReasonThreshold == Lit(3, 10)

\* lines 358-372: the theme block, from the running [totalScore, reasons]
ipcThemeBlock(acc, inputAnalysis, storedLyric) ==
  LET block(sharedThemes) ==
        IF Len(sharedThemes) > 0
        THEN [totalScore |->
                FAdd(acc.totalScore,
                     FMul(overlapScore(sharedThemes, inputAnalysis.themes),
                          ipcThemeWeight)),
              reasons |->
                Append(acc.reasons,
                       SharedThemesText \o join(sharedThemes, CommaSpace))]
        ELSE acc
  IN  Eval(acc, block(sharedOf(inputAnalysis.themes, storedLyric.themes)))

\* lines 374-381: the rhyme block
ipcRhymeBlock(acc, inputAnalysis, storedLyric) ==
  LET block(score) ==
        IF FGt(score, FZero)
        THEN [totalScore |-> FAdd(acc.totalScore, FMul(score, ipcRhymeWeight)),
              reasons |-> IF FGt(score, ipcReasonThreshold)
                          THEN Append(acc.reasons, CompatibleRhymeText)
                          ELSE acc.reasons]
        ELSE acc
  IN  Eval(acc, block(ipcCalculateRhymeScore(inputAnalysis.rhyme_patterns,
                                          storedLyric.rhyme_patterns)))

\* lines 383-397: the mood block
ipcMoodBlock(acc, inputAnalysis, storedLyric) ==
  LET block(inputMoodWords, shared) ==
        IF Len(shared) > 0
        THEN [totalScore |->
                FAdd(acc.totalScore,
                     FMul(overlapScore(shared, inputMoodWords), ipcMoodWeight)),
              reasons |->
                Append(acc.reasons, SimilarMoodText \o storedLyric.mood)]
        ELSE acc
  IN  Eval(acc,
           IF inputAnalysis.mood # <<>> /\ storedLyric.mood # <<>>
           THEN block(moodWords(inputAnalysis.mood),
                      sharedMoodWords(moodWords(inputAnalysis.mood),
                                      moodWords(storedLyric.mood)))
           ELSE acc)

\* lines 399-416: the imagery block
ipcImageryBlock(acc, inputAnalysis, storedLyric) ==
  LET block(sharedImagery) ==
        IF Len(sharedImagery) > 0
        THEN [totalScore |->
                FAdd(acc.totalScore,
                     FMul(overlapScore(sharedImagery,
                                       inputAnalysis.imagery_tags),
                          ipcImageryWeight)),
              reasons |->
                Append(acc.reasons,
                       MatchingImageryText
                         \o join(sharedImagery, CommaSpace))]
        ELSE acc
  IN  Eval(acc, block(sharedOf(inputAnalysis.imagery_tags,
                               storedLyric.imagery_tags)))

\* line 418: weights > 0 ? totalScore / weights : 0
ipcNormalizedScore(acc) ==
  Eval(acc, [score   |-> IF FGt(ipcWeights, FZero)
                         THEN FDiv(acc.totalScore, ipcWeights)
                         ELSE FZero,
             reasons |-> acc.reasons])

ipcCalculateMatchScore(inputAnalysis, storedLyric) ==
  ipcNormalizedScore(
    ipcImageryBlock(
      ipcMoodBlock(
        ipcRhymeBlock(
          ipcThemeBlock([totalScore |-> FZero, reasons |-> <<>>],
                     inputAnalysis, storedLyric),
          inputAnalysis, storedLyric),
        inputAnalysis, storedLyric),
      inputAnalysis, storedLyric))

(***************************************************************************)
(* ai/ollama.ts parseAnalysisResponse, its copy in the main process, and   *)
(* db/database.ts insertLyric and rowToLyric.  parsed is what JSON.parse   *)
(* made of the response: per field a JSON value [type, value], the type    *)
(* "missing" for a field the response does not have.                       *)
(***************************************************************************)
\* the default 'unknown' of the mood
Unknown == <<"u", "n", "k", "n", "o", "w", "n">>

\* Array.isArray(parsed.field) ? parsed.field : []
arrayOr(value, default) == IF value.type = "array" THEN value.value ELSE default

\* typeof parsed.mood === 'string' ? parsed.mood : 'unknown'
stringOr(value, default) ==
  IF value.type = "string" THEN value.value ELSE default

\* ollama.ts lines 154-159: the analysis made of the parsed response
parseAnalysisResponse(parsed) ==
  [themes         |-> arrayOr(parsed.themes, <<>>),
   rhyme_patterns |-> arrayOr(parsed.rhyme_patterns, <<>>),
   mood           |-> stringOr(parsed.mood, Unknown),
   imagery_tags   |-> arrayOr(parsed.imagery_tags, <<>>)]

\* part_000 lines 259-264
ipcParseAnalysisResponse(parsed) ==
  [themes         |-> arrayOr(parsed.themes, <<>>),
   rhyme_patterns |-> arrayOr(parsed.rhyme_patterns, <<>>),
   mood           |-> stringOr(parsed.mood, Unknown),
   imagery_tags   |-> arrayOr(parsed.imagery_tags, <<>>)]

\* a character as JSON.stringify writes it inside a string
jsonEscaped(c) ==
  CASE c = "\"" -> <<"\\", "\"">>
    [] c = "\\" -> <<"\\", "\\">>
    [] c = "\n" -> <<"\\", "n">>
    [] OTHER    -> <<c>>

\* JSON.stringify of an array of strings
JSONstringify(list) ==
  LET quoted(str) ==
        <<"\"">>
          \o join(SeqOf([k \in 1..Len(str) |-> jsonEscaped(str[k])], Len(str)),
                  <<>>)
          \o <<"\"">>
  IN  <<"[">>
        \o join(SeqOf([k \in 1..Len(list) |-> quoted(list[k])], Len(list)),
                <<",">>)
        \o <<"]">>

\* JSON.parse of the text of an array of strings, from position i: items
\* are the strings read so far, current the string being read if inString
RECURSIVE parseFrom(_, _, _, _, _)
parseFrom(text, i, items, current, inString) ==
  IF i > Len(text) THEN items
  ELSE IF inString
       THEN CASE text[i] = "\\" ->
                   parseFrom(text, i + 2, items,
                             Append(current, IF text[i + 1] = "n" THEN "\n"
                                             ELSE text[i + 1]),
                             TRUE)
              [] text[i] = "\"" ->
                   parseFrom(text, i + 1, Append(items, current), <<>>, FALSE)
              [] OTHER ->
                   parseFrom(text, i + 1, items, Append(current, text[i]), TRUE)
       ELSE CASE text[i] = "\"" -> parseFrom(text, i + 1, items, <<>>, TRUE)
              [] text[i] = "]"  -> items
              [] OTHER          -> parseFrom(text, i + 1, items, current, FALSE)

JSONparse(text) == parseFrom(text, 1, <<>>, <<>>, FALSE)

\* database.ts insertLyric: the row the INSERT writes; the new lyric gets id
insertLyric(id, analysis) ==
  [id             |-> id,
   themes         |-> JSONstringify(analysis.themes),
   rhyme_patterns |-> JSONstringify(analysis.rhyme_patterns),
   mood           |-> analysis.mood,
   imagery_tags   |-> JSONstringify(analysis.imagery_tags)]

\* column || fallback: an empty (or NULL) column is falsy
orElse(column, fallback) == IF column = <<>> THEN fallback ELSE column

\* database.ts rowToLyric, and its copy at part_000 lines 173-184
rowToLyric(row) ==
  [id             |-> row.id,
   themes         |-> JSONparse(orElse(row.themes, <<"[", "]">>)),
   rhyme_patterns |-> JSONparse(orElse(row.rhyme_patterns, <<"[", "]">>)),
   mood           |-> orElse(row.mood, <<>>),
   imagery_tags   |-> JSONparse(orElse(row.imagery_tags, <<"[", "]">>))]

(***************************************************************************)
(* State.  call and ret follow one call of one of the pure functions; the  *)
(* other variables follow the vault and one matching request at a time.    *)
(***************************************************************************)
VARIABLES
  call,               \* [fn, args]: the function called and its arguments
  ret,                \* <<>> until the call returns, then <<its value>>
  mode,               \* "cli" (suggestCommand), "gui" (ai:getSuggestions)
  pc,                 \* where the request is: idle, analyzing, adapting, done
  vault,              \* the lyrics table, ORDER BY created_at DESC
  allLyrics,          \* the rows the request read
  inputAnalysis,      \* <<>> until the analysis of the input text is back
  scored,             \* per lyric, the {score, reasons} the loop got for it
  suggestions,        \* the retained candidates, sorted
  topSuggestions,     \* suggestions.slice(0, 5)
  adaptedSuggestions, \* the list the adaptation loop builds
  requested,          \* ids of the lyrics an adaptation was requested for
  result,             \* the list returned (gui) or displayed (cli)
  outcome,            \* none, returned, failed
  opened,             \* database connections opened
  closed              \* database connections closed

callVars == <<call, ret>>

requestVars ==
  <<mode, pc, vault, allLyrics, inputAnalysis, scored, suggestions,
    topSuggestions, adaptedSuggestions, requested, result, outcome,
    opened, closed>>

vars == <<call, ret, mode, pc, vault, allLyrics, inputAnalysis, scored,
          suggestions, topSuggestions, adaptedSuggestions, requested, result,
          outcome, opened, closed>>

NoCall == [fn |-> "none", args |-> <<>>]

\* no request under way, nothing read or computed yet
NoRequest ==
  /\ pc = "idle"
  /\ allLyrics = <<>>
  /\ inputAnalysis = <<>>
  /\ scored = <<>>
  /\ suggestions = <<>>
  /\ topSuggestions = <<>>
  /\ adaptedSuggestions = <<>>
  /\ requested = <<>>
  /\ result = <<>>
  /\ outcome = "none"

\* an empty vault and no request: where the specifications of the pure
\* functions leave the request variables
NoVault ==
  /\ mode = "cli"
  /\ vault = <<>>
  /\ opened = 0
  /\ closed = 0
  /\ NoRequest

\* the sequences over S of length lo..hi
SeqsOver(S, lo, hi) == UNION {[1..n -> S] : n \in lo..hi}

(***************************************************************************)
(* extractRhymePatterns on every text of up to MaxTextLen characters of    *)
(* TextAlphabet and on every line of up to MaxWords of TextWords.          *)
(***************************************************************************)
MaxTextLen == 4

MaxWords == 3

TextAlphabet == {"a", "B", "7", "'", " ", "_", "!"}

TextWords ==
  { <<"b", "r", "i", "g", "h", "t">>, <<"l", "i", "g", "h", "t">>,
    <<"n", "i", "g", "h", "t">>, <<"C", "a", "t">>, <<"i", "t", "'", "s">>,
    <<"n", "o">>, <<"o", "h", "-", "o", "h">> }

Space == <<" ">>

Texts ==
  SeqsOver(TextAlphabet, 0, MaxTextLen)
    \cup {join(ws, Space) : ws \in SeqsOver(TextWords, 1, MaxWords)}

InitExtract ==
  /\ call \in {[fn |-> "extractRhymePatterns", args |-> <<text>>] :
                 text \in Texts}
  /\ ret = <<>>
  /\ NoVault

CallExtract ==
  /\ call.fn = "extractRhymePatterns"
  /\ ret = <<>>
  /\ ret' = <<extractRhymePatterns(call.args[1])>>
  /\ UNCHANGED call
  /\ UNCHANGED requestVars

NextExtract == CallExtract

SpecExtract == InitExtract /\ [][NextExtract]_vars

Returned(fn) == call.fn = fn /\ ret # <<>>

NoRepeats(s) == \A i, j \in 1..Len(s) : i # j => s[i] # s[j]

\* what C9 says extractRhymePatterns keeps: letters, digits, whitespace and
\* apostrophes
ReferenceKept(c) == IsLetter(c) \/ IsDigit(c) \/ IsSpace(c) \/ c = "'"

\* the reference of C9: lowercase, strip, split on whitespace, drop the words
\* shorter than 3, take the last 4 (or 3) characters, keep first occurrences
ReferencePatterns(text) ==
  LET words   == SelectSeq(splitOnSpaces(SelectSeq(toLowerCase(text), ReferenceKept)),
                           LAMBDA w : Len(w) >= 3)
      suffix  == [k \in 1..Len(words) |->
                    IF Len(words[k]) >= 4 THEN sliceLast(words[k], 4)
                    ELSE sliceLast(words[k], 3)]
      isFirst == {k \in 1..Len(words) : \A j \in 1..(k - 1) : suffix[j] # suffix[k]}
  IN  AtIndices(suffix, isFirst)

BrightLightNight ==
  <<"b", "r", "i", "g", "h", "t", " ", "l", "i", "g", "h", "t", " ",
    "n", "i", "g", "h", "t">>

\* C9: extractRhymePatterns(text) equals the reference that removes every
\* character that is not a letter, a digit, whitespace or an apostrophe; the
\* empty text gives no pattern and "bright light night" gives ["ight"].
\* The program keeps the underscore as well (it is in \w), so "a_B" gives
\* ["a_b"] where the reference gives nothing.
C9_ExtractEqualsReference ==
  Returned("extractRhymePatterns") =>
    /\ ret[1] = ReferencePatterns(call.args[1])
    /\ call.args[1] = <<>> => ret[1] = <<>>
    /\ call.args[1] = BrightLightNight => ret[1] = << <<"i", "g", "h", "t">> >>

\* C10: for every text, the sequence extractRhymePatterns returns holds no
\* pattern twice and no pattern shorter than 3 characters.
C10_NoRepeatsNoShortPatterns ==
  Returned("extractRhymePatterns") =>
    /\ NoRepeats(ret[1])
    /\ \A k \in 1..Len(ret[1]) : Len(ret[1][k]) >= 3

\* "bright no light": a word shorter than 3 and an ending that comes twice,
\* and the one pattern returned for them
C10_Witness ==
  /\ Returned("extractRhymePatterns")
  /\ call.args[1] = <<"b", "r", "i", "g", "h", "t", " ", "n", "o", " ",
                      "l", "i", "g", "h", "t">>
  /\ ret[1] = << <<"i", "g", "h", "t">> >>

(***************************************************************************)
(* rhymeMatch on every pair of patterns of up to MaxPatternLen characters  *)
(* of PatternAlphabet, and on the pairs of ExamplePatterns.                *)
(***************************************************************************)
MaxPatternLen == 3

PatternAlphabet == {"a", "e", "b", "A"}

Love == <<"l", "o", "v", "e">>

Dove == <<"d", "o", "v", "e">>

Cat == <<"c", "a", "t">>

Dog == <<"d", "o", "g">>

ExamplePatterns == {Love, Dove, Cat, Dog}

Patterns == SeqsOver(PatternAlphabet, 0, MaxPatternLen) \cup ExamplePatterns

InitRhymeMatch ==
  /\ call \in {[fn |-> "rhymeMatch", args |-> <<p1, p2>>] :
                 p1 \in Patterns, p2 \in Patterns}
  /\ ret = <<>>
  /\ NoVault

CallRhymeMatch ==
  /\ call.fn = "rhymeMatch"
  /\ ret = <<>>
  /\ ret' = <<rhymeMatch(call.args[1], call.args[2])>>
  /\ UNCHANGED call
  /\ UNCHANGED requestVars

NextRhymeMatch == CallRhymeMatch

SpecRhymeMatch == InitRhymeMatch /\ [][NextRhymeMatch]_vars

\* the vowels of p, in order
VowelString(p) == SelectSeq(p, IsVowel)

\* the four rules of C8, on the lowercased patterns
RulesOfC8(a, b) ==
  \/ a = b
  \/ endsWith(b, sliceLast(a, 3))
  \/ endsWith(b, sliceLast(a, 2))
  \/ /\ Len(VowelString(a)) >= 2
     /\ Len(VowelString(b)) >= 2
     /\ sliceLast(VowelString(a), 2) = sliceLast(VowelString(b), 2)

\* C8: rhymeMatch(a, b), after lowercasing both, is true iff a equals b, or
\* a's last 3 characters are a suffix of b, or a's last 2 characters are a
\* suffix of b, or the vowel strings of a and b both have at least 2
\* characters and the same last 2; rhymeMatch("love", "dove") is true and
\* rhymeMatch("cat", "dog") is false.
C8_RhymeMatchRules ==
  Returned("rhymeMatch") =>
    /\ ret[1] = RulesOfC8(toLowerCase(call.args[1]), toLowerCase(call.args[2]))
    /\ call.args = <<Love, Dove>> => ret[1] = TRUE
    /\ call.args = <<Cat, Dog>> => ret[1] = FALSE

\* "Aeb" against "bae": neither equal nor sharing an ending, matched by the
\* vowel rule alone
C8_Witness ==
  /\ Returned("rhymeMatch")
  /\ call.args = << <<"A", "e", "b">>, <<"b", "a", "e">> >>
  /\ ret[1] = TRUE

(***************************************************************************)
(* calculateRhymeScore on every pair of lists of up to MaxPatterns of      *)
(* ScorePatterns and on ExampleLists, called directly and, as the rhyme    *)
(* factor, by calculateMatchScore on analyses that hold nothing else.      *)
(***************************************************************************)
MaxPatterns == 3

ScorePatterns == { <<"a">>, <<"b", "a">>, <<"o", "v", "e">> }

IghtLove == << <<"i", "g", "h", "t">>, Love >>

BrightStove ==
  << <<"b", "r", "i", "g", "h", "t">>, <<"s", "t", "o", "v", "e">> >>

ExampleLists == {IghtLove, BrightStove}

PatternLists == SeqsOver(ScorePatterns, 0, MaxPatterns) \cup ExampleLists

\* an analysis, and a stored lyric, with rhyme patterns and nothing else
RhymesOnly(patterns) ==
  [themes |-> <<>>, rhyme_patterns |-> patterns, mood |-> <<>>,
   imagery_tags |-> <<>>]

LyricOf(id, analysis) ==
  [id |-> id, themes |-> analysis.themes,
   rhyme_patterns |-> analysis.rhyme_patterns, mood |-> analysis.mood,
   imagery_tags |-> analysis.imagery_tags]

InitRhymeScore ==
  /\ call \in
       {[fn |-> "calculateRhymeScore", args |-> <<ps1, ps2>>] :
          ps1 \in PatternLists, ps2 \in PatternLists}
       \cup
       {[fn |-> "calculateMatchScore",
         args |-> <<RhymesOnly(ps1), LyricOf(1, RhymesOnly(ps2))>>] :
          ps1 \in PatternLists, ps2 \in PatternLists}
  /\ ret = <<>>
  /\ NoVault

CallRhymeScore ==
  /\ call.fn = "calculateRhymeScore"
  /\ ret = <<>>
  /\ ret' = <<calculateRhymeScore(call.args[1], call.args[2])>>
  /\ UNCHANGED call
  /\ UNCHANGED requestVars

CallMatchScore ==
  /\ call.fn = "calculateMatchScore"
  /\ ret = <<>>
  /\ ret' = <<calculateMatchScore(call.args[1], call.args[2])>>
  /\ UNCHANGED call
  /\ UNCHANGED requestVars

NextRhymeScore == CallRhymeScore \/ CallMatchScore

SpecRhymeScore == InitRhymeScore /\ [][NextRhymeScore]_vars

\* the indices of patterns2 claimed once the first k elements of patterns1
\* have each claimed the first unclaimed index they match
RECURSIVE ClaimedAfter(_, _, _)
ClaimedAfter(patterns1, patterns2, k) ==
  IF k = 0 THEN {}
  ELSE LET before == ClaimedAfter(patterns1, patterns2, k - 1)
           free   == {i \in 1..Len(patterns2) \ before :
                        rhymeMatch(patterns1[k], patterns2[i])}
       IN  IF free = {} THEN before
           ELSE before \cup {CHOOSE i \in free : \A j \in free : i <= j}

\* the greedy reference of C7
GreedyScore(patterns1, patterns2) ==
  IF patterns1 = <<>> \/ patterns2 = <<>> THEN FZero
  ELSE FDiv(FromInt(Cardinality(ClaimedAfter(patterns1, patterns2,
                                             Len(patterns1)))),
            FromInt(MinOf(Len(patterns1), Len(patterns2))))

\* C7: calculateRhymeScore(patterns1, patterns2) is 0 if either list is
\* empty and otherwise the number of indices of patterns2 claimed greedily,
\* each element of patterns1 in order claiming the first unclaimed index it
\* matches (as first argument of rhymeMatch), over the shorter length;
\* calculateMatchScore passes the query's patterns as patterns1; and
\* calculateRhymeScore(["ight","love"], ["bright","stove"]) is 1.0.
C7_GreedyRhymeScore ==
  /\ Returned("calculateRhymeScore") =>
       /\ ret[1] = GreedyScore(call.args[1], call.args[2])
       /\ call.args = <<IghtLove, BrightStove>> => ret[1] = FOne
  /\ Returned("calculateMatchScore") =>
       ret[1].score =
         FDiv(FMul(GreedyScore(call.args[1].rhyme_patterns,
                               call.args[2].rhyme_patterns), rhymeWeight),
              weights)

\* ["a", "ba"] against ["ba", "a"]: "a" claims "ba", which leaves "ba"
\* nothing it matches, so one of two is claimed
C7_Witness ==
  /\ Returned("calculateRhymeScore")
  /\ call.args = << << <<"a">>, <<"b", "a">> >>, << <<"b", "a">>, <<"a">> >> >>
  /\ ret[1] = Lit(1, 2)

(***************************************************************************)
(* SpecScore: calculateMatchScore of list.ts and its copy in the main      *)
(* process, each called once on a query analysis and a stored lyric.       *)
(***************************************************************************)
QueryThemes == {<<>>, <<<<"L", "o">>>>, <<<<"l", "o", "v", "e">>, <<"n", "i", "g", "h", "t">>>>}

StoredThemes == {<<>>, << <<"l", "o", "v", "e">> >>}

QueryRhymes == {<<>>, <<<<"a", "t">>>>, <<<<"a", "t">>, <<"o", "x">>, <<"u", "m">>>>}

StoredRhymes == {<<>>, <<<<"c", "a", "t">>>>, <<<<"a", "t">>, <<"i", "g">>, <<"e", "n">>>>}

QueryMoods == {<<>>, <<"s", "a", "d">>, <<"S", "a", "d", ",", " ", "b", "l", "u", "e">>}

StoredMoods == {<<>>, <<"s", "a", "d">>}

QueryImagery == {<<>>, <<<<"s", "e", "a">>>>, <<<<"s", "e", "a">>, <<"s", "k", "y">>, <<"s", "u", "n">>>>}

StoredImagery == {<<>>, << <<"S", "e", "a", "s", "i", "d", "e">> >>}

AnalysesOf(themes, rhymes, moods, imagery) ==
  {[themes |-> t, rhyme_patterns |-> r, mood |-> m, imagery_tags |-> i] :
     t \in themes, r \in rhymes, m \in moods, i \in imagery}

QueryAnalyses == AnalysesOf(QueryThemes, QueryRhymes, QueryMoods, QueryImagery)

StoredAnalyses ==
  AnalysesOf(StoredThemes, StoredRhymes, StoredMoods, StoredImagery)

\* the end-to-end example: the query and the candidate
ExampleQuery ==
  [themes |-> <<<<"n", "o", "s", "t", "a", "l", "g", "i", "a">>, <<"m", "e", "m", "o", "r", "y">>>>,
   rhyme_patterns |-> <<<<"i", "g", "h", "t">>>>,
   mood |-> <<"m", "e", "l", "a", "n", "c", "h", "o", "l", "i", "c", ",", " ", "r", "e", "f", "l", "e", "c", "t", "i", "v", "e">>,
   imagery_tags |-> <<>>]

ExampleStored ==
  [themes |-> <<<<"n", "o", "s", "t", "a", "l", "g", "i", "a">>, <<"l", "o", "v", "e">>>>,
   rhyme_patterns |-> <<<<"i", "g", "h", "t">>, <<"o", "v", "e">>>>,
   mood |-> <<"m", "e", "l", "a", "n", "c", "h", "o", "l", "i", "c">>,
   imagery_tags |-> <<>>]

\* three of ten patterns rhyme: a rhyme score of 3/10
ThreeOfTen ==
  <<RhymesOnly(<<<<"a", "t">>, <<"a", "t">>, <<"a", "t">>, <<"z", "z">>, <<"z", "z">>, <<"z", "z">>, <<"z", "z">>, <<"z", "z">>, <<"z", "z">>, <<"z", "z">>>>),
    RhymesOnly(<<<<"a", "t">>, <<"a", "t">>, <<"a", "t">>, <<"a", "t">>, <<"a", "t">>, <<"a", "t">>, <<"a", "t">>, <<"a", "t">>, <<"a", "t">>, <<"a", "t">>>>)>>

\* one of four patterns rhymes: a rhyme score of 1/4
OneOfFour ==
  <<RhymesOnly(<<<<"a", "t">>, <<"z", "z">>, <<"z", "z">>, <<"z", "z">>>>), RhymesOnly(<<<<"a", "t">>, <<"a", "t">>, <<"a", "t">>, <<"a", "t">>>>)>>

ScorePairs ==
  (QueryAnalyses \X StoredAnalyses)
    \cup {<<ExampleQuery, ExampleStored>>, ThreeOfTen, OneOfFour}

ScoreFunctions == {"calculateMatchScore", "ipcCalculateMatchScore"}

InitScore ==
  /\ call \in {[fn |-> f, args |-> <<p[1], LyricOf(1, p[2])>>] :
                 f \in ScoreFunctions, p \in ScorePairs}
  /\ ret = <<>>
  /\ NoVault

CallIpcMatchScore ==
  /\ call.fn = "ipcCalculateMatchScore"
  /\ ret = <<>>
  /\ ret' = <<ipcCalculateMatchScore(call.args[1], call.args[2])>>
  /\ UNCHANGED call
  /\ UNCHANGED requestVars

NextScore == CallMatchScore \/ CallIpcMatchScore

SpecScore == InitScore /\ [][NextScore]_vars

ScoreReturned == ret # <<>> /\ call.fn \in ScoreFunctions

\* the weights 0.35, 0.30, 0.25, 0.10 as the claims state them
ClaimedWeights == <<Lit(35, 100), Lit(30, 100), Lit(25, 100), Lit(10, 100)>>

\* 0.35*themeScore + 0.30*rhymeScore + 0.25*moodScore + 0.10*imageryScore
\* over the sum of the four weights
WeightedSum(query, stored) ==
  FDiv(FAdd(FAdd(FAdd(FMul(ClaimedWeights[1], themeScore(query, stored)),
                      FMul(ClaimedWeights[2], rhymeScore(query, stored))),
                 FMul(ClaimedWeights[3], moodScore(query, stored))),
            FMul(ClaimedWeights[4], imageryScore(query, stored))),
       FAdd(FAdd(FAdd(ClaimedWeights[1], ClaimedWeights[2]),
                 ClaimedWeights[3]),
            ClaimedWeights[4]))

IsExampleCall == call.args = <<ExampleQuery, LyricOf(1, ExampleStored)>>

\* C2: calculateMatchScore returns 0.35*themeScore + 0.30*rhymeScore +
\* 0.25*moodScore + 0.10*imageryScore divided by the accumulated weight
\* total; for the end-to-end example the theme sub-score is 0.5, the rhyme
\* sub-score 1.0, the mood sub-score positive, the aggregate above 0.1 and
\* the candidate passes the retention test with exactly three reasons.
C2_WeightedSumAndExample ==
  ScoreReturned =>
    /\ ret[1].score = WeightedSum(call.args[1], call.args[2])
    /\ IsExampleCall =>
         /\ themeScore(call.args[1], call.args[2]) = Lit(1, 2)
         /\ rhymeScore(call.args[1], call.args[2]) = FOne
         /\ FGt(moodScore(call.args[1], call.args[2]), FZero)
         /\ FGt(ret[1].score, Lit(1, 10))
         /\ Len(ret[1].reasons) = 3

\* the example has been scored by list.ts: 0.6000000000000001, above 0.6,
\* with three reasons
C2_Witness ==
  /\ Returned("calculateMatchScore")
  /\ IsExampleCall
  /\ FGt(ret[1].score, Lit(6, 10))
  /\ Len(ret[1].reasons) = 3

\* C3: the score calculateMatchScore returns lies in [0, 1].
C3_ScoreInUnitInterval ==
  ScoreReturned =>
    FLe(FZero, ret[1].score) /\ FLe(ret[1].score, FOne)

\* all four factors match in full and the score is exactly 1
C3_Witness ==
  /\ Returned("calculateMatchScore")
  /\ Len(ret[1].reasons) = 4
  /\ ret[1].score = FOne

StartsWith(s, t) == Len(s) >= Len(t) /\ SubSeq(s, 1, Len(t)) = t

\* the factors whose reason C4 expects, in the order theme, rhyme, mood,
\* imagery
ExpectedFactors(query, stored) ==
  LET Expected(factor) ==
        \/ factor = "theme" /\ FGt(themeScore(query, stored), FZero)
        \/ factor = "rhyme" /\ FGt(rhymeScore(query, stored), Lit(3, 10))
        \/ factor = "mood" /\ FGt(moodScore(query, stored), FZero)
        \/ factor = "imagery" /\ FGt(imageryScore(query, stored), FZero)
  IN  SelectSeq(<<"theme", "rhyme", "mood", "imagery">>, Expected)

ReasonOf(factor, reason, stored) ==
  CASE factor = "theme"   -> StartsWith(reason, SharedThemesText)
    [] factor = "rhyme"   -> reason = CompatibleRhymeText
    [] factor = "mood"    -> reason = SimilarMoodText \o stored.mood
    [] factor = "imagery" -> StartsWith(reason, MatchingImageryText)

\* C4: the reasons are, in this order, "Shared themes: ..." iff the theme
\* sub-score is positive, "Compatible rhyme patterns" iff the rhyme
\* sub-score is above 0.3, "Similar mood: <candidate mood>" iff the mood
\* sub-score is positive and "Matching imagery: ..." iff the imagery
\* sub-score is positive; a rhyme sub-score in (0, 0.3] still contributes
\* to the score.
C4_ReasonsInOrder ==
  ScoreReturned =>
    LET factors == ExpectedFactors(call.args[1], call.args[2])
    IN  /\ Len(ret[1].reasons) = Len(factors)
        /\ \A k \in 1..Len(factors) :
             ReasonOf(factors[k], ret[1].reasons[k], call.args[2])
        /\ FGt(rhymeScore(call.args[1], call.args[2]), FZero) =>
             FGt(ret[1].score, FZero)

\* a rhyme sub-score of exactly 0.3 has contributed to the score and left
\* no reason
C4_Witness ==
  /\ Returned("calculateMatchScore")
  /\ rhymeScore(call.args[1], call.args[2]) = Lit(3, 10)
  /\ FGt(ret[1].score, FZero)
  /\ ret[1].reasons = <<>>

(***************************************************************************)
(* SpecFactor: the theme factor and the imagery factor of                  *)
(* calculateMatchScore, each on every list of up to MaxInputs of           *)
(* FactorInputs, repeats included, against every list of up to MaxStored   *)
(* of FactorStored.                                                        *)
(***************************************************************************)
MaxInputs == 3

MaxStored == 2

FactorInputs == { <<"L", "o">>, <<"l", "o", "v", "e">>, <<"s", "e", "a">> }

FactorStored == { <<"l", "o", "v", "e">>, <<"S", "e", "a", "s">> }

InitFactor ==
  /\ call \in {[fn |-> f, args |-> <<inputs, storeds>>] :
                 f \in {"themeFactor", "imageryFactor"},
                 inputs \in SeqsOver(FactorInputs, 0, MaxInputs),
                 storeds \in SeqsOver(FactorStored, 0, MaxStored)}
  /\ ret = <<>>
  /\ NoVault

\* lines 100-108 on inputAnalysis.themes and storedLyric.themes
CallThemeFactor ==
  /\ call.fn = "themeFactor"
  /\ ret = <<>>
  /\ ret' = <<overlapFactor(call.args[1], call.args[2])>>
  /\ UNCHANGED call
  /\ UNCHANGED requestVars

\* lines 149-157 on inputAnalysis.imagery_tags and storedLyric.imagery_tags
CallImageryFactor ==
  /\ call.fn = "imageryFactor"
  /\ ret = <<>>
  /\ ret' = <<overlapFactor(call.args[1], call.args[2])>>
  /\ UNCHANGED call
  /\ UNCHANGED requestVars

NextFactor == CallThemeFactor \/ CallImageryFactor

SpecFactor == InitFactor /\ [][NextFactor]_vars

(***************************************************************************)
(* SpecRhymeLoop: calculateRhymeScore and its copy in the main process,    *)
(* one turn of the outer loop at a time, on every pair of PatternLists.    *)
(* call carries the locals: k, the place in patterns1 of the next p1;      *)
(* matches; checked, the indices of patterns2 matched so far (from 1).     *)
(***************************************************************************)
InitRhymeLoop ==
  /\ call \in {[fn |-> f, args |-> <<ps1, ps2>>, k |-> 1, matches |-> 0,
                 checked |-> {}] :
                 f \in {"rhymeLoop", "ipcRhymeLoop"},
                 ps1 \in PatternLists, ps2 \in PatternLists}
  /\ ret = <<>>
  /\ NoVault

\* the loop is entered only if neither list is empty, and runs once for
\* each element of patterns1
InLoop ==
  /\ ret = <<>>
  /\ Len(call.args[1]) > 0
  /\ Len(call.args[2]) > 0
  /\ call.k <= Len(call.args[1])

\* the locals after the turn for p1 = patterns1[k], given what the turn
\* made of matches and checked
afterTurn(turn) ==
  [call EXCEPT !.k = call.k + 1, !.matches = turn[1], !.checked = turn[2]]

RhymeLoopTurn ==
  /\ call.fn = "rhymeLoop"
  /\ InLoop
  /\ call' = afterTurn(rhymeLoop(<<call.args[1][call.k]>>, call.args[2], 1,
                                 call.matches, call.checked))
  /\ UNCHANGED ret
  /\ UNCHANGED requestVars

RhymeScoreReturns ==
  /\ call.fn = "rhymeLoop"
  /\ ret = <<>>
  /\ ~InLoop
  /\ ret' = <<calculateRhymeScore(call.args[1], call.args[2])>>
  /\ UNCHANGED call
  /\ UNCHANGED requestVars

IpcRhymeLoopTurn ==
  /\ call.fn = "ipcRhymeLoop"
  /\ InLoop
  /\ call' = afterTurn(ipcRhymeLoop(<<call.args[1][call.k]>>, call.args[2],
                                    1, call.matches, call.checked))
  /\ UNCHANGED ret
  /\ UNCHANGED requestVars

IpcRhymeScoreReturns ==
  /\ call.fn = "ipcRhymeLoop"
  /\ ret = <<>>
  /\ ~InLoop
  /\ ret' = <<ipcCalculateRhymeScore(call.args[1], call.args[2])>>
  /\ UNCHANGED call
  /\ UNCHANGED requestVars

NextRhymeLoop ==
  \/ RhymeLoopTurn
  \/ RhymeScoreReturns
  \/ IpcRhymeLoopTurn
  \/ IpcRhymeScoreReturns

SpecRhymeLoop == InitRhymeLoop /\ [][NextRhymeLoop]_vars

(***************************************************************************)
(* SpecMood: calculateMatchScore and its copy in the main process on a     *)
(* query and a stored lyric that have a mood and nothing else, for every   *)
(* pair of Moods.                                                          *)
(***************************************************************************)
Moods ==
  { <<>>,
    <<"s", "a", "d">>,
    <<"S", "A", "D">>,
    <<"s", "a", "d", "n", "e", "s", "s">>,
    <<"g", "l", "a", "d">>,
    <<"S", "a", "d", ",", " ", "b", "l", "u", "e">>,
    <<"b", "l", "u", "e", "\t", "c", "a", "l", "m">>,
    <<"c", "a", "l", "m", ",", "s", "a", "d", ",", "o", "d", "d">>,
    <<"s", "a", "d", ",", " ">>,
    <<" ", "b", "l", "u", "e">> }

MoodOnly(mood) ==
  [themes |-> <<>>, rhyme_patterns |-> <<>>, mood |-> mood,
   imagery_tags |-> <<>>]

InitMood ==
  /\ call \in {[fn |-> f,
                 args |-> <<MoodOnly(q), LyricOf(1, MoodOnly(st))>>] :
                 f \in ScoreFunctions, q \in Moods, st \in Moods}
  /\ ret = <<>>
  /\ NoVault

NextMood == CallMatchScore \/ CallIpcMatchScore

SpecMood == InitMood /\ [][NextMood]_vars

(***************************************************************************)
(* SpecParse: a query analysis and a stored lyric built from two parsed    *)
(* responses, with fields missing or of the wrong type, and scored.  The   *)
(* stored lyric is the row insertLyric wrote for its analysis, read back   *)
(* by rowToLyric.                                                          *)
(***************************************************************************)
Missing == [type |-> "missing", value |-> <<>>]

JsonNumber == [type |-> "number", value |-> <<"7">>]

JsonString(str) == [type |-> "string", value |-> str]

JsonArray(list) == [type |-> "array", value |-> list]

\* a list field of a response: missing, a string, an array of one string
ListValues(str) == {Missing, JsonString(str), JsonArray(<<str>>)}

MoodValues ==
  {Missing, JsonNumber, JsonString(<<>>), JsonString(<<"s", "a", "d">>)}

QueryResponses ==
  {[themes |-> t, rhyme_patterns |-> r, mood |-> m, imagery_tags |-> i] :
     t \in ListValues(<<"l", "o", "v", "e">>),
     r \in ListValues(<<"a", "t">>),
     m \in MoodValues,
     i \in ListValues(<<"s", "e", "a">>)}

\* the responses stored lyrics were built from: an empty object; every
\* field of the wrong type; every field given; every field but the mood
EmptyResponse ==
  [themes |-> Missing, rhyme_patterns |-> Missing, mood |-> Missing,
   imagery_tags |-> Missing]

FullResponse ==
  [themes         |-> JsonArray(<< <<"l", "o", "v", "e">> >>),
   rhyme_patterns |-> JsonArray(<< <<"c", "a", "t">> >>),
   mood           |-> JsonString(<<"s", "a", "d">>),
   imagery_tags   |-> JsonArray(<< <<"s", "e", "a">> >>)]

StoredResponses ==
  {EmptyResponse,
   [themes |-> JsonNumber, rhyme_patterns |-> JsonNumber, mood |-> JsonNumber,
    imagery_tags |-> JsonNumber],
   FullResponse,
   [FullResponse EXCEPT !.mood = Missing]}

InitParse ==
  /\ call \in {[fn |-> f, args |-> <<q, st>>] :
                 f \in {"parseAnalysisResponse", "ipcParseAnalysisResponse"},
                 q \in QueryResponses, st \in StoredResponses}
  /\ ret = <<>>
  /\ NoVault

\* the cli: the two responses are parsed, the second analysis is stored and
\* read back, and calculateMatchScore is about to be called on the two
CallParse ==
  /\ call.fn = "parseAnalysisResponse"
  /\ call' =
       [fn     |-> "calculateMatchScore",
        args   |-> <<parseAnalysisResponse(call.args[1]),
                     rowToLyric(insertLyric(1,
                       parseAnalysisResponse(call.args[2])))>>,
        parsed |-> call.args]
  /\ UNCHANGED ret
  /\ UNCHANGED requestVars

\* the same in the main process
CallIpcParse ==
  /\ call.fn = "ipcParseAnalysisResponse"
  /\ call' =
       [fn     |-> "ipcCalculateMatchScore",
        args   |-> <<ipcParseAnalysisResponse(call.args[1]),
                     rowToLyric(insertLyric(1,
                       ipcParseAnalysisResponse(call.args[2])))>>,
        parsed |-> call.args]
  /\ UNCHANGED ret
  /\ UNCHANGED requestVars

NextParse == CallParse \/ CallIpcParse \/ CallMatchScore \/ CallIpcMatchScore

SpecParse == InitParse /\ [][NextParse]_vars

(***************************************************************************)
(* The matching request: suggestCommand of list.ts (mode "cli") and the    *)
(* ai:getSuggestions handler of the main process (mode "gui").  A          *)
(* suggestion is [lyric, match_score, match_reasons, suggested_adaptation], *)
(* the last <<>> while the field is absent and <<text>> once it is set.    *)
(***************************************************************************)
\* const { score, reasons } = calculateMatchScore(inputAnalysis, lyric), by
\* the copy of the function each front end has
matchScoreIn(m, analysis, lyric) ==
  IF m = "cli" THEN calculateMatchScore(analysis, lyric)
  ELSE ipcCalculateMatchScore(analysis, lyric)

\* what the loop over allLyrics gets for each lyric, in order
scoreAll(m, analysis, lyrics) ==
  LET entry(lyric, r) ==
        [lyric |-> lyric, score |-> r.score, reasons |-> r.reasons]
  IN  SeqOf([i \in 1..Len(lyrics) |->
               entry(lyrics[i], matchScoreIn(m, analysis, lyrics[i]))],
            Len(lyrics))

\* a filter that lets a score of exactly the threshold through
retainedFromThreshold(entry) ==
  ~FGt(scoreThreshold, entry.score) /\ Len(entry.reasons) > 0

\* a filter that lets every score from 0 through, with or without a reason
retainedFromZero(entry) == ~FGt(FZero, entry.score)

\* a filter that lets every positive score through, with or without a reason
retainedAboveZero(entry) == FGt(entry.score, FZero)

\* score > 0.1 && reasons.length > 0
retained(entry) == FGt(entry.score, scoreThreshold) /\ Len(entry.reasons) > 0

\* the suggestions pushed, in the order of the loop
pushed(entries) ==
  LET suggestionOf(entry) ==
        [lyric |-> entry.lyric, match_score |-> entry.score,
         match_reasons |-> entry.reasons, suggested_adaptation |-> <<>>]
      kept == SelectSeq(entries, retained)
  IN  SeqOf([i \in 1..Len(kept) |-> suggestionOf(kept[i])], Len(kept))

\* the comparator (a, b) => b.match_score - a.match_score, by its sign
compare(a, b) == FCmp(b.match_score, a.match_score)

\* an insertion point in front of the elements that compare equal
insertionPointBeforeTies(sorted, x) ==
  LET after == {j \in 1..Len(sorted) : compare(sorted[j], x) >= 0}
  IN  IF after = {} THEN Len(sorted) + 1
      ELSE CHOOSE j \in after : \A i \in after : j <= i

\* where x goes into a sorted list: in front of the first element the
\* comparator puts after it, so behind every element that compares equal
insertionPoint(sorted, x) ==
  LET after == {j \in 1..Len(sorted) : compare(sorted[j], x) > 0}
  IN  IF after = {} THEN Len(sorted) + 1
      ELSE CHOOSE j \in after : \A i \in after : j <= i

\* Array.prototype.sort with the comparator: a stable sort, here by
\* inserting the elements in order; the first k elements of list, sorted
RECURSIVE sortFirst(_, _)
sortFirst(list, k) ==
  IF k = 0 THEN <<>>
  ELSE LET into(sorted, at) ==
             SubSeq(sorted, 1, at - 1) \o <<list[k]>>
               \o SubSeq(sorted, at, Len(sorted))
           place(sorted) == into(sorted, insertionPoint(sorted, list[k]))
       IN  place(sortFirst(list, k - 1))

sort(list) == sortFirst(list, Len(list))

\* suggestions.slice(0, 5)
topOf(list) == SubSeq(list, 1, MinOf(5, Len(list)))

\* every displayed suggestion taken for adaptation
forAdaptationAll(top) == top

\* topSuggestions.slice(0, 3)
forAdaptation(top) == SubSeq(top, 1, MinOf(3, Len(top)))

\* how many adaptations the request asks for: the length of the list
\* generateAdaptations walks, Math.min(3, topSuggestions.length) in the gui
adaptCount(m, top) ==
  IF m = "cli" THEN Len(forAdaptation(top)) ELSE MinOf(3, Len(top))

\* String.prototype.trim
trim(s) ==
  LET kept == {i \in 1..Len(s) : ~IsSpace(s[i])}
  IN  IF kept = {} THEN <<>>
      ELSE SubSeq(s, CHOOSE i \in kept : \A j \in kept : i <= j,
                  CHOOSE i \in kept : \A j \in kept : j <= i)

\* if (s.startsWith(q) && s.endsWith(q)) s = s.slice(1, -1)
unquote(s, q) ==
  IF Len(s) >= 1 /\ s[1] = q /\ s[Len(s)] = q
  THEN SubSeq(s, 2, Len(s) - 1)
  ELSE s

\* list.ts: trim, then a pair of double quotes, then a pair of single ones
cleanAdaptation(adaptation) == unquote(unquote(trim(adaptation), "\""), "'")

\* the main process: trim, then a pair of double quotes
ipcCleanAdaptation(adaptation) == unquote(trim(adaptation), "\"")

cleanIn(m, adaptation) ==
  IF m = "cli" THEN cleanAdaptation(adaptation)
  ELSE ipcCleanAdaptation(adaptation)

MaxVault == 6

\* the analyses the model may return for the input text: a theme and
\* three rhymes; a theme and imagery; a theme and four rhymes; and one with
\* all four fields that has nothing in common with either stored analysis
LoveAt ==
  [themes |-> << <<"l", "o", "v", "e">> >>,
   rhyme_patterns |-> << <<"a", "t">>, <<"o", "x">>, <<"u", "m">> >>,
   mood |-> <<>>,
   imagery_tags |-> <<>>]

LoveSea ==
  [themes |-> << <<"l", "o", "v", "e">> >>,
   rhyme_patterns |-> <<>>,
   mood |-> <<>>,
   imagery_tags |-> << <<"s", "e", "a">> >>]

LoveAtOfFour ==
  [LoveAt EXCEPT
     !.rhyme_patterns = << <<"a", "t">>, <<"o", "x">>, <<"u", "m">>, <<"e", "x">> >>]

NightOx ==
  [themes |-> << <<"n", "i", "g", "h", "t">> >>,
   rhyme_patterns |-> << <<"o", "x">> >>,
   mood |-> <<"G", "l", "a", "d", ",", " ", "c", "a", "l", "m">>,
   imagery_tags |-> << <<"s", "k", "y">> >>]

InputAnalyses == {LoveAt, LoveSea, LoveAtOfFour, NightOx}

\* stored analyses.  ThemeLyric shares the theme of three of the input
\* analyses.  RhymeImageryLyric scores exactly 0.1, with the rhyme reason,
\* against LoveAt (one rhyme in three), 0.10000000000000002 against LoveSea
\* (the imagery), above 0 with no reason against LoveAtOfFour (one rhyme in
\* four) and 0 against NightOx
ThemeLyric ==
  [themes |-> << <<"l", "o", "v", "e">> >>, rhyme_patterns |-> <<>>,
   mood |-> <<"s", "a", "d">>, imagery_tags |-> <<>>]

RhymeImageryLyric ==
  [themes |-> <<>>,
   rhyme_patterns |->
     << <<"a", "t">>, <<"i", "g">>, <<"e", "n">>, <<"u", "b">> >>,
   mood |-> <<>>,
   imagery_tags |-> << <<"S", "e", "a", "s", "i", "d", "e">> >>]

StoredLyrics == {ThemeLyric, RhymeImageryLyric}

\* the rows most recent first: ids fall along the list
Vaults ==
  {SeqOf([i \in 1..Len(as) |-> LyricOf(Len(as) - i + 1, as[i])], Len(as)) :
     as \in SeqsOver(StoredLyrics, 0, MaxVault)}

\* what the text model may answer to an adaptation prompt
AdaptationTexts ==
  {<<"\"", "h", "i", "\"">>, <<" ", "'", "h", "i", "'", "\n">>}

Init ==
  /\ call = NoCall
  /\ ret = <<>>
  /\ mode \in {"cli", "gui"}
  /\ vault \in Vaults
  /\ opened = 0
  /\ closed = 0
  /\ NoRequest

\* a request that asks for the analysis whatever it read
StartRequestWithoutEmptyCheck ==
  /\ pc = "idle"
  /\ opened' = opened + 1
  /\ allLyrics' = vault
  /\ pc' = "analyzing"
  /\ UNCHANGED <<call, ret, mode, vault, inputAnalysis, scored, suggestions,
                 topSuggestions, adaptedSuggestions, requested, result,
                 outcome, closed>>

\* the request up to its first await: the database is opened and read, and
\* an empty vault ends the request
StartRequest ==
  /\ pc = "idle"
  /\ opened' = opened + 1
  /\ allLyrics' = vault
  /\ IF Len(vault) = 0
     THEN /\ pc' = "done"
          /\ outcome' = IF mode = "cli" THEN "empty vault" ELSE "returned"
          /\ closed' = closed + 1
     ELSE /\ pc' = "analyzing"
          /\ UNCHANGED <<outcome, closed>>
  /\ UNCHANGED <<call, ret, mode, vault, inputAnalysis, scored, suggestions,
                 topSuggestions, adaptedSuggestions, requested, result>>

\* the analysis is back: every lyric is scored, the retained ones are
\* sorted, and either the request ends with no match or the first
\* adaptation is requested
AnalysisReturns ==
  /\ pc = "analyzing"
  /\ \E analysis \in InputAnalyses :
       /\ inputAnalysis' = <<analysis>>
       /\ scored' = scoreAll(mode, analysis, allLyrics)
  /\ suggestions' = sort(pushed(scored'))
  /\ IF Len(suggestions') = 0
     THEN /\ pc' = "done"
          /\ outcome' = IF mode = "cli" THEN "no matches" ELSE "returned"
          /\ closed' = closed + 1
          /\ UNCHANGED <<topSuggestions, requested>>
     ELSE /\ pc' = "adapting"
          /\ topSuggestions' = topOf(suggestions')
          /\ requested' = <<topSuggestions'[1].lyric.id>>
          /\ UNCHANGED <<outcome, closed>>
  /\ UNCHANGED <<call, ret, mode, vault, allLyrics, adaptedSuggestions,
                 result, opened>>

\* a failed analysis that ends the request with the database left open
AnalysisFailsWithoutClose ==
  /\ pc = "analyzing"
  /\ pc' = "done"
  /\ outcome' = IF mode = "cli" THEN "exit" ELSE "rejected"
  /\ UNCHANGED <<call, ret, mode, vault, allLyrics, inputAnalysis, scored,
                 suggestions, topSuggestions, adaptedSuggestions, requested,
                 result, opened, closed>>

\* the analysis throws: list.ts catches and calls process.exit(1), which
\* ends the process before the finally block; the handler has no catch,
\* closes the database in finally and rejects
AnalysisFails ==
  /\ pc = "analyzing"
  /\ pc' = "done"
  /\ IF mode = "cli"
     THEN outcome' = "exit" /\ UNCHANGED closed
     ELSE outcome' = "rejected" /\ closed' = closed + 1
  /\ UNCHANGED <<call, ret, mode, vault, allLyrics, inputAnalysis, scored,
                 suggestions, topSuggestions, adaptedSuggestions, requested,
                 result, opened>>

\* a turn of the loop that puts its entry in front of the earlier ones
PushedInFront(entry) ==
  /\ adaptedSuggestions' = <<entry>> \o adaptedSuggestions
  /\ IF Len(adaptedSuggestions') < adaptCount(mode, topSuggestions)
     THEN /\ requested' =
               Append(requested,
                      topSuggestions[Len(adaptedSuggestions') + 1].lyric.id)
          /\ UNCHANGED <<pc, result, outcome, closed>>
     ELSE /\ pc' = "done"
          /\ result' = adaptedSuggestions'
                         \o SubSeq(topSuggestions, 4, Len(topSuggestions))
          /\ outcome' = IF mode = "cli" THEN "shown" ELSE "returned"
          /\ closed' = closed + 1
          /\ UNCHANGED requested
  /\ UNCHANGED <<call, ret, mode, vault, allLyrics, inputAnalysis, scored,
                 suggestions, topSuggestions, opened>>

\* a loop that, after its first turn, requests the remaining adaptations
\* together
PushedRequestingRest(entry) ==
  /\ adaptedSuggestions' = Append(adaptedSuggestions, entry)
  /\ IF Len(adaptedSuggestions') < adaptCount(mode, topSuggestions)
     THEN /\ requested' =
               requested \o
                 [j \in 1..(adaptCount(mode, topSuggestions) - Len(requested)) |->
                    topSuggestions[Len(requested) + j].lyric.id]
          /\ UNCHANGED <<pc, result, outcome, closed>>
     ELSE /\ pc' = "done"
          /\ result' = adaptedSuggestions'
                         \o SubSeq(topSuggestions, 4, Len(topSuggestions))
          /\ outcome' = IF mode = "cli" THEN "shown" ELSE "returned"
          /\ closed' = closed + 1
          /\ UNCHANGED requested
  /\ UNCHANGED <<call, ret, mode, vault, allLyrics, inputAnalysis, scored,
                 suggestions, topSuggestions, opened>>

\* one turn of the adaptation loop has pushed entry: the next adaptation is
\* requested, or the loop is over, the list is merged with
\* topSuggestions.slice(3) and the database is closed
Pushed(entry) ==
  /\ adaptedSuggestions' = Append(adaptedSuggestions, entry)
  /\ IF Len(adaptedSuggestions') < adaptCount(mode, topSuggestions)
     THEN /\ requested' =
               Append(requested,
                      topSuggestions[Len(adaptedSuggestions') + 1].lyric.id)
          /\ UNCHANGED <<pc, result, outcome, closed>>
     ELSE /\ pc' = "done"
          /\ result' = adaptedSuggestions'
                         \o SubSeq(topSuggestions, 4, Len(topSuggestions))
          /\ outcome' = IF mode = "cli" THEN "shown" ELSE "returned"
          /\ closed' = closed + 1
          /\ UNCHANGED requested
  /\ UNCHANGED <<call, ret, mode, vault, allLyrics, inputAnalysis, scored,
                 suggestions, topSuggestions, opened>>

\* the text model answers the prompt for the suggestion in turn
AdaptationReturns ==
  /\ pc = "adapting"
  /\ \E adaptation \in AdaptationTexts :
       Pushed([topSuggestions[Len(adaptedSuggestions) + 1] EXCEPT
                 !.suggested_adaptation = <<cleanIn(mode, adaptation)>>])

\* a failure of the text model that ends the request with an error
AdaptationFailsAndAborts ==
  /\ pc = "adapting"
  /\ pc' = "done"
  /\ outcome' = IF mode = "cli" THEN "exit" ELSE "rejected"
  /\ closed' = IF mode = "cli" THEN closed ELSE closed + 1
  /\ UNCHANGED <<call, ret, mode, vault, allLyrics, inputAnalysis, scored,
                 suggestions, topSuggestions, adaptedSuggestions, requested,
                 result, opened>>

\* the text model fails: the suggestion is pushed as it is
AdaptationFails ==
  /\ pc = "adapting"
  /\ Pushed(topSuggestions[Len(adaptedSuggestions) + 1])

Next ==
  \/ StartRequest
  \/ AnalysisReturns
  \/ AnalysisFails
  \/ AdaptationReturns
  \/ AdaptationFails

Spec == Init /\ [][Next]_vars

\* the ids of the lyrics of a list of suggestions
IdsOf(list) == {list[k].lyric.id : k \in 1..Len(list)}

\* the place of a lyric in the candidate list the request read
PlaceOf(lyric) == CHOOSE i \in 1..Len(allLyrics) : allLyrics[i].id = lyric.id

\* the threshold 0.1 of the retention test as C1 states it
ClaimedThreshold == Lit(1, 10)

\* the retention test as C1 states it, on what the loop got for a lyric
PassesFilter(entry) ==
  FGt(entry.score, ClaimedThreshold) /\ entry.reasons # <<>>

\* a suggestion carries the score and the reasons computed for its lyric
AsScored(suggestion) ==
  \E i \in 1..Len(scored) :
    /\ scored[i].lyric = suggestion.lyric
    /\ scored[i].score = suggestion.match_score
    /\ scored[i].reasons = suggestion.match_reasons

\* C1: in both pipelines a candidate is retained only if its score is above
\* 0.1 and its reasons are not empty: every suggestion kept, ranked or
\* returned satisfies both, and a candidate whose score is at most 0.1
\* (exactly 0.1 included) or whose reasons are empty is in none of the lists.
C1_RetainedOnlyAboveThreshold ==
  /\ \A list \in {suggestions, topSuggestions, adaptedSuggestions, result} :
       \A k \in 1..Len(list) :
         /\ AsScored(list[k])
         /\ FGt(list[k].match_score, ClaimedThreshold)
         /\ list[k].match_reasons # <<>>
  /\ \A i \in 1..Len(scored) :
       FLe(scored[i].score, ClaimedThreshold) \/ scored[i].reasons = <<>> =>
         scored[i].lyric.id \notin
           IdsOf(suggestions) \cup IdsOf(topSuggestions)
             \cup IdsOf(adaptedSuggestions) \cup IdsOf(result)

\* a request has returned suggestions and left out a candidate that scored
\* exactly 0.1 and had a reason
C1_Witness ==
  /\ pc = "done"
  /\ result # <<>>
  /\ \E i \in 1..Len(scored) :
       /\ scored[i].score = ClaimedThreshold
       /\ scored[i].reasons # <<>>
       /\ scored[i].lyric.id \notin IdsOf(result)

\* C5: the ranked list is a stable sort of the retained candidates by
\* descending score: it holds each retained candidate once, its scores never
\* increase, and candidates of equal score keep the order they have in the
\* candidate list (storage order, most recent first).
C5_StableSortByScore ==
  inputAnalysis # <<>> =>
    /\ IdsOf(suggestions) =
         {scored[i].lyric.id : i \in {j \in 1..Len(scored) :
                                        PassesFilter(scored[j])}}
    /\ Cardinality(IdsOf(suggestions)) = Len(suggestions)
    /\ \A k \in 1..Len(suggestions) : AsScored(suggestions[k])
    /\ \A j, k \in 1..Len(suggestions) :
         j < k =>
           /\ FLe(suggestions[k].match_score, suggestions[j].match_score)
           /\ suggestions[j].match_score = suggestions[k].match_score =>
                PlaceOf(suggestions[j].lyric) < PlaceOf(suggestions[k].lyric)

\* the sort has moved a candidate in front of an earlier one and has kept
\* two candidates of equal score in their order
C5_Witness ==
  /\ inputAnalysis # <<>>
  /\ \E j, k \in 1..Len(suggestions) :
       /\ j < k
       /\ PlaceOf(suggestions[j].lyric) > PlaceOf(suggestions[k].lyric)
  /\ \E j, k \in 1..Len(suggestions) :
       /\ j < k
       /\ suggestions[j].match_score = suggestions[k].match_score

\* C6: the list returned holds the min(5, n) highest-ranked of the n
\* retained candidates; an adaptation is requested only for the first
\* min(3, n) of them, in turn and at most once each; the entries at rank 4
\* and 5 carry no adaptation, an entry carries one only if it was requested,
\* and the scored and ranked lists carry none.
C6_TopFiveAdaptTopThree ==
  /\ pc = "done" /\ outcome \notin {"exit", "rejected"} =>
       /\ Len(result) = MinOf(5, Len(suggestions))
       /\ \A k \in 1..Len(result) :
            /\ result[k].lyric = suggestions[k].lyric
            /\ result[k].match_score = suggestions[k].match_score
            /\ result[k].match_reasons = suggestions[k].match_reasons
            /\ k >= 4 => result[k].suggested_adaptation = <<>>
            /\ result[k].suggested_adaptation # <<>> =>
                 \E j \in 1..Len(requested) : requested[j] = result[k].lyric.id
  /\ Len(requested) <= MinOf(3, Len(suggestions))
  /\ \A j \in 1..Len(requested) : requested[j] = suggestions[j].lyric.id
  /\ NoRepeats(requested)
  /\ \A list \in {suggestions, topSuggestions} :
       \A k \in 1..Len(list) : list[k].suggested_adaptation = <<>>

\* six candidates were retained: five are returned, the first three with
\* the adaptation requested for them, the last two without
C6_Witness ==
  /\ pc = "done"
  /\ Len(suggestions) = 6
  /\ Len(result) = 5
  /\ Len(requested) = 3
  /\ \A k \in 1..3 : result[k].suggested_adaptation = << <<"h", "i">> >>
  /\ \A k \in 4..5 : result[k].suggested_adaptation = <<>>

\* the query and the candidate have an element in common by the rule of the
\* sub-scores: one contains the other, letter case aside
InCommon(inputs, storeds) ==
  \E i \in 1..Len(inputs), j \in 1..Len(storeds) :
    \/ includes(toLowerCase(inputs[i]), toLowerCase(storeds[j]))
    \/ includes(toLowerCase(storeds[j]), toLowerCase(inputs[i]))

\* a pattern of the query and one of the candidate rhyme, either way round
RhymeInCommon(patterns1, patterns2) ==
  \E i \in 1..Len(patterns1), j \in 1..Len(patterns2) :
    rhymeMatch(patterns1[i], patterns2[j]) \/ rhymeMatch(patterns2[j], patterns1[i])

\* the two moods, both given, have a word in common
MoodInCommon(mood1, mood2) ==
  /\ mood1 # <<>>
  /\ mood2 # <<>>
  /\ InCommon(moodWords(mood1), moodWords(mood2))

NothingShared(analysis, lyric) ==
  /\ ~InCommon(analysis.themes, lyric.themes)
  /\ ~RhymeInCommon(analysis.rhyme_patterns, lyric.rhyme_patterns)
  /\ ~MoodInCommon(analysis.mood, lyric.mood)
  /\ ~InCommon(analysis.imagery_tags, lyric.imagery_tags)

\* the ids of the lyrics in any list of suggestions of the request
RetainedIds ==
  IdsOf(suggestions) \cup IdsOf(topSuggestions)
    \cup IdsOf(adaptedSuggestions) \cup IdsOf(result)

ErrorOutcomes == {"exit", "rejected"}

\* C12: a matching request over an empty candidate list ends at once with an
\* empty result list and without an error, whatever the query: no analysis
\* of the query is asked for and nothing is scored.
C12_EmptyVaultEmptyResult ==
  pc # "idle" /\ allLyrics = <<>> =>
    /\ pc = "done"
    /\ result = <<>>
    /\ outcome \notin ErrorOutcomes
    /\ inputAnalysis = <<>>
    /\ scored = <<>>
    /\ requested = <<>>

\* the gui handler has read an empty vault, returned [] and closed the
\* database
C12_Witness ==
  /\ mode = "gui"
  /\ vault = <<>>
  /\ pc = "done"
  /\ outcome = "returned"
  /\ result = <<>>
  /\ opened = 1
  /\ closed = 1

\* the rank of the candidate whose adaptation call is under way
InTurn == Len(adaptedSuggestions) + 1

\* what C13 says of the step in which the call in turn fails: the entry is
\* kept as it was ranked, without an adaptation; the request goes on with no
\* error; and the call for the next of the first min(3, n) candidates, if
\* there is one, is made in the same step
FailureIsSkipped ==
  /\ adaptedSuggestions' = Append(adaptedSuggestions, topSuggestions[InTurn])
  /\ adaptedSuggestions'[InTurn].suggested_adaptation = <<>>
  /\ outcome' \notin ErrorOutcomes
  /\ IF InTurn < MinOf(3, Len(suggestions))
     THEN /\ pc' = "adapting"
          /\ requested' = Append(requested, suggestions[InTurn + 1].lyric.id)
     ELSE pc' = "done" /\ requested' = requested

\* every adaptation call of the request has been made: one for each of the
\* first min(3, n) ranked candidates
AllAttempted ==
  /\ Len(requested) = MinOf(3, Len(suggestions))
  /\ \A j \in 1..Len(requested) : requested[j] = suggestions[j].lyric.id

\* C13: whichever adaptation calls succeed or fail, a call is made for each
\* of the first min(3, n) ranked candidates; a call that fails leaves its
\* entry without an adaptation, neither ends the request nor holds back the
\* call for the next candidate, and is not an error of the request.
C13_AdaptationsIndependent ==
  /\ [](pc = "adapting" => /\ Len(requested) = InTurn
                           /\ InTurn <= MinOf(3, Len(suggestions)))
  /\ [](pc = "done" /\ suggestions # <<>> =>
          AllAttempted /\ outcome \notin ErrorOutcomes)
  /\ [][AdaptationFails => FailureIsSkipped]_vars

\* the first and the third call failed and the second succeeded: three
\* calls were made and only the second entry carries an adaptation
C13_Witness ==
  /\ pc = "done"
  /\ Len(requested) = 3
  /\ result[1].suggested_adaptation = <<>>
  /\ result[2].suggested_adaptation # <<>>
  /\ result[3].suggested_adaptation = <<>>
  /\ outcome \notin ErrorOutcomes

\* a suggestion with its adaptation taken away
Unadapted(suggestion) == [suggestion EXCEPT !.suggested_adaptation = <<>>]

\* list is, entry by entry, the first Len(list) of the ranked top five, the
\* adaptation aside
InRankOrder(list) ==
  /\ Len(list) <= Len(topSuggestions)
  /\ \A k \in 1..Len(list) : Unadapted(list[k]) = topSuggestions[k]

\* C14: whichever adaptation calls succeed or fail and in whatever order
\* they end, the returned list has the candidates of the ranked top five in
\* the same positions, and so has the list the adaptation loop builds; only
\* the adaptation field differs.
C14_RankOrderKept ==
  /\ InRankOrder(adaptedSuggestions)
  /\ pc = "done" /\ suggestions # <<>> /\ outcome \notin ErrorOutcomes =>
       Len(result) = Len(topSuggestions) /\ InRankOrder(result)

\* five candidates of two different scores are returned in rank order; the
\* second call failed, the first and the third succeeded
C14_Witness ==
  /\ pc = "done"
  /\ Len(result) = 5
  /\ InRankOrder(result)
  /\ result[1].match_score # result[5].match_score
  /\ result[1].suggested_adaptation # <<>>
  /\ result[2].suggested_adaptation = <<>>
  /\ result[3].suggested_adaptation # <<>>

\* C15: every suggestion made for a matching request has at least one
\* reason whenever its score is above 0, in each list of the request.
C15_PositiveScoreHasReason ==
  \A list \in {suggestions, topSuggestions, adaptedSuggestions, result} :
    \A k \in 1..Len(list) :
      FGt(list[k].match_score, FZero) => Len(list[k].match_reasons) > 0

\* a request has returned a suggestion with a positive score and a reason,
\* and has made no suggestion of a candidate whose only match, one rhyme in
\* four, gave it a positive score and no reason
C15_Witness ==
  /\ pc = "done"
  /\ \E k \in 1..Len(result) :
       /\ FGt(result[k].match_score, FZero)
       /\ Len(result[k].match_reasons) > 0
  /\ \E i \in 1..Len(scored) :
       /\ FGt(scored[i].score, FZero)
       /\ scored[i].reasons = <<>>
       /\ scored[i].lyric.id \notin IdsOf(result)

\* the list fields of an analysis
ListFields == {"themes", "rhyme_patterns", "imagery_tags"}

\* the defaults C16 states for the analysis built from a parsed response
DefaultsAsClaimed(parsed, analysis) ==
  /\ \A field \in ListFields :
       parsed[field].type # "array" => analysis[field] = <<>>
  /\ parsed.mood.type # "string" => analysis.mood = <<>>

\* C16: an analysis built from a response in which a field is missing or
\* has the wrong type has the empty list for themes, rhyme_patterns and
\* imagery_tags and the empty string for mood, so a query and a stored
\* lyric that both lack a mood get no mood sub-score and no "Similar mood"
\* reason.
C16_SparseDefaults ==
  call.fn \in ScoreFunctions =>
    /\ DefaultsAsClaimed(call.parsed[1], call.args[1])
    /\ DefaultsAsClaimed(call.parsed[2], call.args[2])
    /\ /\ ret # <<>>
       /\ call.parsed[1].mood.type # "string"
       /\ call.parsed[2].mood.type # "string"
       => /\ moodScore(call.args[1], call.args[2]) = FZero
          /\ \A k \in 1..Len(ret[1].reasons) :
               ~StartsWith(ret[1].reasons[k], SimilarMoodText)

FactorReturned == ret # <<>> /\ call.fn \in {"themeFactor", "imageryFactor"}

\* x and some element of storeds contain one another, letter case aside
HasPartner(x, storeds) == InCommon(<<x>>, storeds)

\* the place x first has in list
FirstPlace(list, x) ==
  CHOOSE i \in 1..Len(list) :
    list[i] = x /\ \A j \in 1..(i - 1) : list[j] # x

\* C17: the shared-theme list and the shared-imagery list hold exactly the
\* query elements that contain, or are contained in, some candidate element
\* as a case-insensitive substring, in the order of the query and each
\* once, also when the query repeats an element.
C17_SharedListDeduplicated ==
  FactorReturned =>
    /\ Range(ret[1].shared) =
         {x \in Range(call.args[1]) : HasPartner(x, call.args[2])}
    /\ \A j, k \in 1..Len(ret[1].shared) :
         j < k => FirstPlace(call.args[1], ret[1].shared[j])
                    < FirstPlace(call.args[1], ret[1].shared[k])
    /\ NoRepeats(ret[1].shared)

\* the sub-score of C18 for a shared list and a query list
ClaimedSubScore(shared, inputs) ==
  FMin(FDiv(FromInt(Len(shared)), FromInt(MaxOf(Len(inputs), 1))), FOne)

\* C18: the theme sub-score and the imagery sub-score are
\* min(len(shared) / max(len(input), 1), 1), lie in [0, 1], and are 0 when
\* the query list is empty.
C18_OverlapSubScore ==
  FactorReturned =>
    /\ ret[1].score = ClaimedSubScore(ret[1].shared, call.args[1])
    /\ FLe(FZero, ret[1].score)
    /\ FLe(ret[1].score, FOne)
    /\ call.args[1] = <<>> => ret[1].score = FZero

\* two of three query themes are shared: the sub-score is 2/3
C18_Witness ==
  /\ FactorReturned
  /\ call.fn = "themeFactor"
  /\ Len(call.args[1]) = 3
  /\ Len(ret[1].shared) = 2
  /\ ret[1].score = Lit(2, 3)

\* the words of a mood as C19 takes them: the lowercase pieces between the
\* runs of whitespace and commas, read character by character; a mood that
\* starts or ends with a separator has an empty piece there
RECURSIVE WordsFrom(_, _, _, _, _)
WordsFrom(mood, i, words, word, inRun) ==
  IF i > Len(mood) THEN Append(words, word)
  ELSE IF mood[i] \in {" ", "\t", "\n", "\r", ","}
       THEN IF inRun THEN WordsFrom(mood, i + 1, words, word, TRUE)
            ELSE WordsFrom(mood, i + 1, Append(words, word), <<>>, TRUE)
       ELSE WordsFrom(mood, i + 1, words,
                      Append(word, toLowerChar(mood[i])), FALSE)

ClaimedWords(mood) == WordsFrom(mood, 1, <<>>, <<>>, FALSE)

\* the mood sub-score of C19: the query words that contain or are
\* contained in some candidate word, over the number of query words; 0 if
\* either mood is the empty string
ClaimedMoodScore(queryMood, storedMood) ==
  IF queryMood = <<>> \/ storedMood = <<>> THEN FZero
  ELSE LET queryWords  == ClaimedWords(queryMood)
           storedWords == ClaimedWords(storedMood)
           shared == {k \in 1..Len(queryWords) :
                        \E j \in 1..Len(storedWords) :
                          \/ includes(queryWords[k], storedWords[j])
                          \/ includes(storedWords[j], queryWords[k])}
       IN  FDiv(FromInt(Cardinality(shared)), FromInt(Len(queryWords)))

\* C19: the mood sub-score is the number of lowercase query words, split
\* on whitespace and commas, that contain or are contained in some
\* candidate word, over the number of query words; it weighs 0.25 in the
\* score and comes with the reason "Similar mood: <candidate mood>" when it
\* is positive; if either mood is the empty string it is 0 and there is no
\* mood reason.
C19_MoodSubScore ==
  ScoreReturned =>
    /\ moodScore(call.args[1], call.args[2]) =
         ClaimedMoodScore(call.args[1].mood, call.args[2].mood)
    /\ ret[1].score =
         FDiv(FMul(ClaimedMoodScore(call.args[1].mood, call.args[2].mood),
                   ClaimedWeights[3]),
              weights)
    /\ ret[1].reasons =
         IF FGt(ClaimedMoodScore(call.args[1].mood, call.args[2].mood), FZero)
         THEN <<SimilarMoodText \o call.args[2].mood>>
         ELSE <<>>
    /\ call.args[1].mood = <<>> \/ call.args[2].mood = <<>> =>
         ret[1].score = FZero /\ ret[1].reasons = <<>>

\* "calm,sad,odd" against "SAD": one query word of three is shared, the
\* sub-score is 1/3 and the mood reason is there
C19_Witness ==
  /\ ScoreReturned
  /\ call.args[1].mood =
       <<"c", "a", "l", "m", ",", "s", "a", "d", ",", "o", "d", "d">>
  /\ call.args[2].mood = <<"S", "A", "D">>
  /\ moodScore(call.args[1], call.args[2]) = Lit(1, 3)
  /\ Len(ret[1].reasons) = 1

LoopReturned == ret # <<>> /\ call.fn \in {"rhymeLoop", "ipcRhymeLoop"}

\* C20: in calculateRhymeScore each element of patterns1 claims at most
\* one index of patterns2 and never one claimed before, so the match count
\* is the number of claimed indices and never exceeds min(len(patterns1),
\* len(patterns2)); the score returned is the count over that minimum and
\* lies in [0, 1].
C20_EachIndexClaimedOnce ==
  /\ [](/\ call.checked \subseteq 1..Len(call.args[2])
        /\ call.matches = Cardinality(call.checked)
        /\ call.matches <= MinOf(call.k - 1, Len(call.args[2]))
        /\ call.matches <= MinOf(Len(call.args[1]), Len(call.args[2])))
  /\ [](LoopReturned =>
          /\ FLe(FZero, ret[1])
          /\ FLe(ret[1], FOne)
          /\ Len(call.args[1]) > 0 /\ Len(call.args[2]) > 0 =>
               ret[1] = FDiv(FromInt(call.matches),
                             FromInt(MinOf(Len(call.args[1]),
                                           Len(call.args[2])))))
  /\ [][call'.k = call.k + 1 =>
          /\ call.checked \subseteq call'.checked
          /\ Cardinality(call'.checked \ call.checked) <= 1
          /\ call'.matches =
               call.matches + Cardinality(call'.checked \ call.checked)]_vars

\* ["a", "a", "a"] against ["a", "ba"]: the first two elements claim the
\* two indices, the third finds both claimed, and the score is 2/2
C20_Witness ==
  /\ LoopReturned
  /\ call.args = << << <<"a">>, <<"a">>, <<"a">> >>, << <<"a">>, <<"b", "a">> >> >>
  /\ call.matches = 2
  /\ call.checked = {1, 2}
  /\ ret[1] = FOne

(***************************************************************************)
(* SpecRepeat: two requests, one after the other, on the same vault.  The  *)
(* variables of a request are the locals of suggestCommand and of the      *)
(* ai:getSuggestions handler, which every invocation creates anew; call    *)
(* and ret keep what the earlier request computed and returned.            *)
(***************************************************************************)
MaxRepeatVault == 2

RepeatVaults == {rows \in Vaults : Len(rows) <= MaxRepeatVault}

InitRepeat == Init /\ vault \in RepeatVaults

\* what a finished request leaves for comparison
EarlierRequest ==
  [fn |-> "request",
   args |-> <<inputAnalysis, scored, suggestions, topSuggestions>>]

\* a second invocation that finds the result variable of the first
RequestAgainKeepingResult ==
  /\ pc = "done"
  /\ call = NoCall
  /\ call' = EarlierRequest
  /\ ret' = <<[result |-> result, outcome |-> outcome]>>
  /\ pc' = "idle"
  /\ allLyrics' = <<>>
  /\ inputAnalysis' = <<>>
  /\ scored' = <<>>
  /\ suggestions' = <<>>
  /\ topSuggestions' = <<>>
  /\ adaptedSuggestions' = <<>>
  /\ requested' = <<>>
  /\ outcome' = "none"
  /\ UNCHANGED <<mode, vault, result, opened, closed>>

\* the command, or the handler, is invoked again after a request is over:
\* its locals are new, the vault is what it was
RequestAgain ==
  /\ pc = "done"
  /\ call = NoCall
  /\ call' = EarlierRequest
  /\ ret' = <<[result |-> result, outcome |-> outcome]>>
  /\ pc' = "idle"
  /\ allLyrics' = <<>>
  /\ inputAnalysis' = <<>>
  /\ scored' = <<>>
  /\ suggestions' = <<>>
  /\ topSuggestions' = <<>>
  /\ adaptedSuggestions' = <<>>
  /\ requested' = <<>>
  /\ result' = <<>>
  /\ outcome' = "none"
  /\ UNCHANGED <<mode, vault, opened, closed>>

NextRepeat == Next \/ RequestAgain

SpecRepeat == InitRepeat /\ [][NextRepeat]_vars

\* the adaptation each entry of a list carries: <<>> or <<the text>>
AdaptationsOf(list) == [k \in 1..Len(list) |-> list[k].suggested_adaptation]

\* every entry of the list holds a row of allLyrics as it was read
HoldsRowsAsRead(list) ==
  \A k \in 1..Len(list) :
    \E i \in 1..Len(allLyrics) : list[k].lyric = allLyrics[i]

InSecondRequest == call # NoCall

\* C23: a request writes nothing it or a later request reads back.
\* Scoring, filtering, ranking and adapting leave the vault, the rows read
\* and the query analysis as they are, and every entry of suggestions,
\* topSuggestions, adaptedSuggestions and the result holds a row as read; a
\* request starts with nothing computed, whatever an earlier one did; and a
\* second request with the same query analysis computes the same scores,
\* suggestions and top suggestions as the first and, when its adaptation
\* calls end the same way, the same result and outcome.
C23_RequestIsPure ==
  /\ [][/\ vault' = vault
        /\ pc # "idle" /\ pc' # "idle" => allLyrics' = allLyrics
        /\ inputAnalysis # <<>> /\ pc' # "idle" =>
             inputAnalysis' = inputAnalysis]_vars
  /\ [](/\ HoldsRowsAsRead(suggestions)
        /\ HoldsRowsAsRead(topSuggestions)
        /\ HoldsRowsAsRead(adaptedSuggestions)
        /\ HoldsRowsAsRead(result)
        /\ pc # "idle" => allLyrics = vault)
  /\ [](pc = "idle" => NoRequest)
  /\ [](InSecondRequest /\ pc \in {"adapting", "done"}
          /\ inputAnalysis = call.args[1] =>
          /\ scored = call.args[2]
          /\ suggestions = call.args[3]
          /\ topSuggestions = call.args[4]
          /\ pc = "done" =>
               /\ Len(result) = Len(ret[1].result)
               /\ AdaptationsOf(result) = AdaptationsOf(ret[1].result) =>
                    result = ret[1].result /\ outcome = ret[1].outcome)

\* a second request on two rows has ended with the query analysis and the
\* adaptations of the first, and with its result of two suggestions
C23_Witness ==
  /\ InSecondRequest
  /\ pc = "done"
  /\ inputAnalysis = call.args[1]
  /\ Len(result) = 2
  /\ AdaptationsOf(result) = AdaptationsOf(ret[1].result)
  /\ result[1].suggested_adaptation # <<>>
  /\ result = ret[1].result

(***************************************************************************)
(* SpecHandlers: one invocation of one of the handlers of the main process *)
(* that open the database.  A handler opens it with getDatabase(), works   *)
(* in a try block and closes it in the finally block; the db:* handlers    *)
(* have no await, ai:addLyricWithAnalysis awaits the analysis once, and    *)
(* ai:getSuggestions is the request of Spec with mode "gui".  ret holds    *)
(* the value of the return statement once it is evaluated; outcome is set  *)
(* when the promise settles.                                               *)
(***************************************************************************)
DbHandlers ==
  {"db:getAllLyrics", "db:getRecentLyrics", "db:getLyric", "db:deleteLyric",
   "db:searchLyrics", "db:getStats"}

NoFilter == [theme |-> <<>>, rhyme |-> <<>>, mood |-> <<>>]

SearchQueries ==
  {NoFilter,
   [NoFilter EXCEPT !.theme = <<"L", "O", "V">>],
   [NoFilter EXCEPT !.rhyme = <<"i", "g">>, !.mood = <<"s", "a", "d">>]}

HandlerCalls ==
  {[fn |-> f, args |-> <<>>] :
     f \in {"db:getAllLyrics", "db:getStats", "ai:addLyricWithAnalysis",
            "ai:getSuggestions"}}
  \cup {[fn |-> "db:getRecentLyrics", args |-> <<limit>>] : limit \in 0..1}
  \cup {[fn |-> f, args |-> <<id>>] :
          f \in {"db:getLyric", "db:deleteLyric"}, id \in 1..MaxRepeatVault}
  \cup {[fn |-> "db:searchLyrics", args |-> <<query>>] : query \in SearchQueries}

InitHandlers ==
  /\ call \in HandlerCalls
  /\ ret = <<>>
  /\ mode = "gui"
  /\ vault \in RepeatVaults
  /\ opened = 0
  /\ closed = 0
  /\ NoRequest

\* column LIKE '%text%' on text without wildcards: the column holds the
\* text, letter case aside
like(column, text) == includes(toLowerCase(column), toLowerCase(text))

\* the WHERE clause db:searchLyrics builds: a filter for every field of the
\* query that is not empty, on the columns as insertLyric wrote them
matchesQuery(lyric, query) ==
  /\ query.theme # <<>> => like(JSONstringify(lyric.themes), query.theme)
  /\ query.rhyme # <<>> =>
       like(JSONstringify(lyric.rhyme_patterns), query.rhyme)
  /\ query.mood # <<>> => like(lyric.mood, query.mood)

\* the rows with the given id
rowsWithId(id) == SelectSeq(vault, LAMBDA lyric : lyric.id = id)

\* what the body of a db:* handler returns; rows carry no created_at, and
\* the oldest row stands for its date
queryResult(fn, args) ==
  CASE fn = "db:getAllLyrics"    -> vault
    [] fn = "db:getRecentLyrics" -> SubSeq(vault, 1, MinOf(args[1], Len(vault)))
    [] fn = "db:getLyric"        -> rowsWithId(args[1])
    [] fn = "db:deleteLyric"     -> Len(rowsWithId(args[1])) > 0
    [] fn = "db:searchLyrics"    ->
         SelectSeq(vault, LAMBDA lyric : matchesQuery(lyric, args[1]))
    [] fn = "db:getStats"        ->
         [total |-> Len(vault),
          oldestDate |-> IF vault = <<>> THEN <<>>
                         ELSE <<vault[Len(vault)].id>>]

\* a db:* handler up to its return statement: the database is opened, the
\* statement runs (DELETE removes the row) and the value to return is there
DbQuery ==
  /\ call.fn \in DbHandlers
  /\ pc = "idle"
  /\ opened' = opened + 1
  /\ ret' = <<queryResult(call.fn, call.args)>>
  /\ vault' = IF call.fn = "db:deleteLyric"
              THEN SelectSeq(vault, LAMBDA lyric : lyric.id # call.args[1])
              ELSE vault
  /\ pc' = "closing"
  /\ UNCHANGED <<call, mode, allLyrics, inputAnalysis, scored, suggestions,
                 topSuggestions, adaptedSuggestions, requested, result,
                 outcome, closed>>

\* the statement of a db:* handler throws
DbQueryFails ==
  /\ call.fn \in DbHandlers
  /\ pc = "idle"
  /\ opened' = opened + 1
  /\ pc' = "closing"
  /\ UNCHANGED <<call, ret, mode, vault, allLyrics, inputAnalysis, scored,
                 suggestions, topSuggestions, adaptedSuggestions, requested,
                 result, outcome, closed>>

\* ai:addLyricWithAnalysis up to its await: the database is opened and the
\* analysis asked for
AddStart ==
  /\ call.fn = "ai:addLyricWithAnalysis"
  /\ pc = "idle"
  /\ opened' = opened + 1
  /\ pc' = "analyzing"
  /\ UNCHANGED <<call, ret, mode, vault, allLyrics, inputAnalysis, scored,
                 suggestions, topSuggestions, adaptedSuggestions, requested,
                 result, outcome, closed>>

\* the analysis is back: the row is inserted, the newest, with the next id
AddAnalysisReturns ==
  /\ call.fn = "ai:addLyricWithAnalysis"
  /\ pc = "analyzing"
  /\ \E analysis \in InputAnalyses :
       /\ inputAnalysis' = <<analysis>>
       /\ vault' = <<rowToLyric(insertLyric(Len(vault) + 1, analysis))>>
                     \o vault
       /\ ret' = <<[id |-> Len(vault) + 1, analysis |-> analysis]>>
  /\ pc' = "closing"
  /\ UNCHANGED <<call, mode, allLyrics, scored, suggestions, topSuggestions,
                 adaptedSuggestions, requested, result, outcome, opened,
                 closed>>

\* the analysis throws: nothing is inserted
AddAnalysisFails ==
  /\ call.fn = "ai:addLyricWithAnalysis"
  /\ pc = "analyzing"
  /\ pc' = "closing"
  /\ UNCHANGED <<call, ret, mode, vault, allLyrics, inputAnalysis, scored,
                 suggestions, topSuggestions, adaptedSuggestions, requested,
                 result, outcome, opened, closed>>

\* the finally block: db.close(), and the promise settles with the value
\* returned or with the error thrown
HandlerCloses ==
  /\ pc = "closing"
  /\ closed' = closed + 1
  /\ pc' = "done"
  /\ outcome' = IF ret = <<>> THEN "rejected" ELSE "returned"
  /\ UNCHANGED <<call, ret, mode, vault, allLyrics, inputAnalysis, scored,
                 suggestions, topSuggestions, adaptedSuggestions, requested,
                 result, opened>>

NextHandlers ==
  \/ DbQuery
  \/ DbQueryFails
  \/ AddStart
  \/ AddAnalysisReturns
  \/ AddAnalysisFails
  \/ HandlerCloses
  \/ (call.fn = "ai:getSuggestions" /\ Next)

SpecHandlers == InitHandlers /\ [][NextHandlers]_vars

\* the one-to-one matchings of indices of patterns1 with indices of
\* patterns2 in which every pair satisfies rhymeMatch
Matchings(patterns1, patterns2) ==
  {pairs \in SUBSET {<<k, i>> \in (1..Len(patterns1)) \X (1..Len(patterns2)) :
                       rhymeMatch(patterns1[k], patterns2[i])} :
     \A x, y \in pairs : x # y => x[1] # y[1] /\ x[2] # y[2]}

MaxMatching(patterns1, patterns2) ==
  LET sizes == {Cardinality(pairs) : pairs \in Matchings(patterns1, patterns2)}
  IN  CHOOSE n \in sizes : \A other \in sizes : other <= n

\* the orderings of the elements of a list
Reorderings(list) ==
  {[i \in 1..Len(list) |-> list[f[i]]] :
     f \in {g \in [1..Len(list) -> 1..Len(list)] :
              \A i, j \in 1..Len(list) : i # j => g[i] # g[j]}}

GreedyCount(patterns1, patterns2) == rhymeLoop(patterns1, patterns2, 1, 0, {})[1]

ABa == << <<"a">>, <<"b", "a">> >>

BaA == << <<"b", "a">>, <<"a">> >>

\* C21: calculateRhymeScore counts a greedy matching, which is never larger
\* than a maximum one-to-one matching under rhymeMatch and can be smaller:
\* ["a", "ba"] against ["ba", "a"] counts 1 where 2 pairs can be matched,
\* and against the permuted ["a", "ba"] the score is 1 and not 1/2; whenever
\* the greedy count is below the maximum, some permutation of patterns2
\* returns another score.
C21_GreedyNotOptimal ==
  /\ Returned("calculateRhymeScore") =>
       LET patterns1 == call.args[1]
           patterns2 == call.args[2]
           greedy    == GreedyCount(patterns1, patterns2)
           best      == MaxMatching(patterns1, patterns2)
       IN  /\ greedy <= best
           /\ Len(patterns1) > 0 /\ Len(patterns2) > 0 =>
                ret[1] = FDiv(FromInt(greedy),
                              FromInt(MinOf(Len(patterns1), Len(patterns2))))
           /\ greedy < best =>
                \E permuted \in Reorderings(patterns2) :
                  calculateRhymeScore(patterns1, permuted) # ret[1]
  /\ GreedyCount(ABa, BaA) = 1
  /\ MaxMatching(ABa, BaA) = 2
  /\ calculateRhymeScore(ABa, BaA) = Lit(1, 2)
  /\ calculateRhymeScore(ABa, ABa) = FOne

\* ["a", "ba"] against ["ba", "a"] has returned 1/2 although both elements
\* can be matched, and the permuted second list scores otherwise
C21_Witness ==
  /\ Returned("calculateRhymeScore")
  /\ call.args = <<ABa, BaA>>
  /\ GreedyCount(call.args[1], call.args[2]) < MaxMatching(call.args[1], call.args[2])
  /\ ABa \in Reorderings(call.args[2])
  /\ calculateRhymeScore(call.args[1], ABa) # ret[1]

\* the suffix rule on lowercased patterns: b ends with a's last 3 or last 2
SuffixRule(a, b) ==
  endsWith(b, sliceLast(a, 3)) \/ endsWith(b, sliceLast(a, 2))

\* the rules that read both patterns alike: equality and the vowel rule
EitherOrderRule(a, b) ==
  \/ a = b
  \/ /\ Len(VowelString(a)) >= 2
     /\ Len(VowelString(b)) >= 2
     /\ sliceLast(VowelString(a), 2) = sliceLast(VowelString(b), 2)

\* C22: the suffix rule of rhymeMatch tests the endings of the first
\* argument against the second and never the reverse, so rhymeMatch is not
\* symmetric: rhymeMatch(a, b) differs from rhymeMatch(b, a) exactly when
\* neither equality nor the vowel rule holds and the suffix rule holds in
\* one order only, as for "a" and "ba".
C22_SuffixRuleOneWay ==
  /\ Returned("rhymeMatch") =>
       LET a == toLowerCase(call.args[1])
           b == toLowerCase(call.args[2])
       IN  /\ ret[1] = (EitherOrderRule(a, b) \/ SuffixRule(a, b))
           /\ EitherOrderRule(a, b) = EitherOrderRule(b, a)
           /\ (ret[1] # rhymeMatch(call.args[2], call.args[1])) =
                (~EitherOrderRule(a, b) /\ SuffixRule(a, b) # SuffixRule(b, a))
  /\ rhymeMatch(<<"a">>, <<"b", "a">>)
  /\ ~rhymeMatch(<<"b", "a">>, <<"a">>)

\* rhymeMatch("a", "ba") has returned true, and in the other order the
\* patterns do not match
C22_Witness ==
  /\ Returned("rhymeMatch")
  /\ call.args = << <<"a">>, <<"b", "a">> >>
  /\ ret[1]
  /\ ~rhymeMatch(call.args[2], call.args[1])

LastTwo(p) == sliceLast(p, 2)

\* rhymeMatch on every pair of Patterns, and extractRhymePatterns on every
\* text of Texts
InitTokens == InitRhymeMatch \/ InitExtract

NextTokens == CallRhymeMatch \/ CallExtract

SpecTokens == InitTokens /\ [][NextTokens]_vars

\* C26: for patterns a and b of length 2 or more, b ends with a's last 3 or
\* last 2 characters iff the last two characters of a and b are equal (and
\* equal patterns have equal last two characters), so that
\* rhymeMatch(a, b) = rhymeMatch(b, a); every token extractRhymePatterns
\* produces has length 2 or more, and rhymeMatch is symmetric on them.
C26_SymmetricFromLengthTwo ==
  /\ Returned("rhymeMatch") /\ Len(call.args[1]) >= 2 /\ Len(call.args[2]) >= 2 =>
       LET a == call.args[1]
           b == call.args[2]
           p1 == toLowerCase(a)
           p2 == toLowerCase(b)
       IN  /\ SuffixRule(a, b) = (LastTwo(a) = LastTwo(b))
           /\ SuffixRule(p1, p2) = (LastTwo(p1) = LastTwo(p2))
           /\ endsWith(p2, sliceLast(p1, 3)) => endsWith(p2, sliceLast(p1, 2))
           /\ p1 = p2 => endsWith(p2, sliceLast(p1, 2))
           /\ ret[1] = rhymeMatch(b, a)
  /\ Returned("extractRhymePatterns") =>
       \A p, q \in Range(ret[1]) :
         /\ Len(p) >= 2
         /\ rhymeMatch(p, q) = rhymeMatch(q, p)

\* rhymeMatch("Aba", "ba") has returned true by the suffix rule alone, and
\* so does rhymeMatch("ba", "Aba")
C26_Witness ==
  /\ Returned("rhymeMatch")
  /\ call.args = << <<"A", "b", "a">>, <<"b", "a">> >>
  /\ ~EitherOrderRule(toLowerCase(call.args[1]), toLowerCase(call.args[2]))
  /\ ret[1]
  /\ rhymeMatch(call.args[2], call.args[1])

\* 0.35*themeScore + 0.30*rhymeScore + 0.25*moodScore + 0.10*imageryScore,
\* added in this order
TotalScoreOf(query, stored) ==
  FAdd(FAdd(FAdd(FMul(ClaimedWeights[1], themeScore(query, stored)),
                 FMul(ClaimedWeights[2], rhymeScore(query, stored))),
            FMul(ClaimedWeights[3], moodScore(query, stored))),
       FMul(ClaimedWeights[4], imageryScore(query, stored)))

\* the binary64 just below 1: 1 - 2^-53
OneMinusHalfUlp ==
  RoundF(BSub(BShl(<<1>>, Precision), <<1>>), 0 - Precision)

\* C24 as stated: the four weights total exactly 1.0 and the division by
\* the total is a no-op, so the score returned is the weighted sum itself.
C24_DivisionIsNoOp ==
  ScoreReturned =>
    /\ weights = FOne
    /\ ipcWeights = FOne
    /\ ret[1].score = TotalScoreOf(call.args[1], call.args[2])

\* C24, amended: the four weights are added on every call, whatever
\* matched, and their total 0.35 + 0.30 + 0.25 + 0.10 is, in binary64,
\* 1 - 2^-53 and not 1.0; the score returned is the weighted sum divided by
\* that total, which is the weighted sum itself only when the sum is 0 and
\* is greater otherwise.
C24_WeightTotalBelowOne ==
  ScoreReturned =>
    LET sum == TotalScoreOf(call.args[1], call.args[2])
    IN  /\ weights = OneMinusHalfUlp
        /\ ipcWeights = OneMinusHalfUlp
        /\ weights # FOne
        /\ ret[1].score = FDiv(sum, OneMinusHalfUlp)
        /\ IF sum = FZero THEN ret[1].score = FZero
                          ELSE FGt(ret[1].score, sum)

\* all four factors match in full: the weighted sum is the weight total,
\* below 1, and the score returned is 1
C24_Witness ==
  /\ Returned("calculateMatchScore")
  /\ TotalScoreOf(call.args[1], call.args[2]) = OneMinusHalfUlp
  /\ FGt(FOne, TotalScoreOf(call.args[1], call.args[2]))
  /\ ret[1].score = FOne

\* 0.30 * 0.3, which is 0.09 in binary64
ClaimedReasonlessBound == FMul(Lit(30, 100), Lit(3, 10))

\* C25 as stated: a result with no reasons has a score of at most
\* 0.30 * 0.3 = 0.09.
C25_ReasonlessAtMostNineHundredths ==
  ScoreReturned /\ Len(ret[1].reasons) = 0 =>
    FLe(ret[1].score, ClaimedReasonlessBound)

\* C25, amended: a result with no reasons has matched nothing but rhymes,
\* with a rhyme sub-score of at most 0.3, and its score is at most
\* 0.30 * 0.3 divided by the weight total, which is 0.09000000000000001:
\* above 0.09 and not above 0.1.  So a score above 0.1 comes with at least
\* one reason, and the test reasons.length > 0 excludes no candidate that
\* score > 0.1 admits.
C25_ReasonlessBelowThreshold ==
  ScoreReturned =>
    LET query  == call.args[1]
        stored == call.args[2]
    IN  /\ Len(ret[1].reasons) = 0 =>
             /\ themeScore(query, stored) = FZero
             /\ moodScore(query, stored) = FZero
             /\ imageryScore(query, stored) = FZero
             /\ FLe(rhymeScore(query, stored), Lit(3, 10))
             /\ ret[1].score =
                  FDiv(FMul(rhymeScore(query, stored), Lit(30, 100)),
                       OneMinusHalfUlp)
             /\ FLe(ret[1].score,
                    FDiv(ClaimedReasonlessBound, OneMinusHalfUlp))
             /\ ~FGt(ret[1].score, Lit(1, 10))
        /\ FGt(ret[1].score, Lit(1, 10)) => Len(ret[1].reasons) > 0
        /\ FGt(FDiv(ClaimedReasonlessBound, OneMinusHalfUlp),
               ClaimedReasonlessBound)

\* three of ten patterns rhyme: no reason, and a score above 0.30 * 0.3
C25_Witness ==
  /\ ScoreReturned
  /\ call.args[1] = ThreeOfTen[1]
  /\ Len(ret[1].reasons) = 0
  /\ rhymeScore(call.args[1], call.args[2]) = Lit(3, 10)
  /\ FGt(ret[1].score, ClaimedReasonlessBound)
  /\ ret[1].score = FDiv(ClaimedReasonlessBound, OneMinusHalfUlp)

(***************************************************************************)
(* SpecSuggest: the scoring loop, the filter and the sort of a request, as *)
(* suggestCommand and the ai:getSuggestions handler run them, on every     *)
(* list of up to MaxCandidates of SuggestStored and every analysis of      *)
(* SuggestQueries.                                                         *)
(***************************************************************************)
MaxCandidates == 3

SadOnly == MoodOnly(<<"s", "a", "d">>)

SuggestQueries == {LoveAt, LoveSea, LoveAtOfFour, NightOx, SadOnly}

SuggestStored == {ThemeLyric, RhymeImageryLyric, SadOnly}

CandidateLists ==
  {SeqOf([i \in 1..Len(as) |-> LyricOf(Len(as) - i + 1, as[i])], Len(as)) :
     as \in SeqsOver(SuggestStored, 0, MaxCandidates)}

InitSuggest ==
  /\ call \in {[fn |-> f, args |-> <<analysis, lyrics>>] :
                 f \in {"suggestions", "ipcSuggestions"},
                 analysis \in SuggestQueries, lyrics \in CandidateLists}
  /\ ret = <<>>
  /\ NoVault

\* the candidates the copy of front end m retains, in its order
SuggestionsIn(m, analysis, lyrics) == sort(pushed(scoreAll(m, analysis, lyrics)))

\* the loop over allLyrics, the filter and the sort, in the front end the
\* call names
CallSuggestions ==
  /\ call.fn \in {"suggestions", "ipcSuggestions"}
  /\ ret = <<>>
  /\ scored' = scoreAll(IF call.fn = "suggestions" THEN "cli" ELSE "gui",
                        call.args[1], call.args[2])
  /\ suggestions' = sort(pushed(scored'))
  /\ ret' = <<suggestions'>>
  /\ UNCHANGED <<call, mode, pc, vault, allLyrics, inputAnalysis,
                 topSuggestions, adaptedSuggestions, requested, result,
                 outcome, opened, closed>>

NextSuggest == CallSuggestions

SpecSuggest == InitSuggest /\ [][NextSuggest]_vars

SuggestReturned == ret # <<>> /\ call.fn \in {"suggestions", "ipcSuggestions"}

\* C27: the copies of rhymeMatch, calculateRhymeScore and
\* calculateMatchScore in the GUI's main process and those of the CLI
\* agree: for every query analysis and every list of stored lyrics they
\* give each candidate the same score and the same reasons, and the two
\* front ends retain the same candidates in the same order.
C27_CopiesAgree ==
  SuggestReturned =>
    LET analysis == call.args[1]
        lyrics   == call.args[2]
    IN  /\ \A i \in 1..Len(lyrics) :
             /\ ipcCalculateMatchScore(analysis, lyrics[i])
                  = calculateMatchScore(analysis, lyrics[i])
             /\ ipcCalculateRhymeScore(analysis.rhyme_patterns,
                                       lyrics[i].rhyme_patterns)
                  = calculateRhymeScore(analysis.rhyme_patterns,
                                        lyrics[i].rhyme_patterns)
             /\ \A p \in Range(analysis.rhyme_patterns) :
                  \A q \in Range(lyrics[i].rhyme_patterns) :
                    ipcRhymeMatch(p, q) = rhymeMatch(p, q)
        /\ scoreAll("gui", analysis, lyrics) = scoreAll("cli", analysis, lyrics)
        /\ ret[1] = SuggestionsIn("cli", analysis, lyrics)
        /\ ret[1] = SuggestionsIn("gui", analysis, lyrics)

\* the handler of the GUI has retained two of three candidates, the better
\* first, as the CLI's copy does
C27_Witness ==
  /\ Returned("ipcSuggestions")
  /\ Len(call.args[2]) = 3
  /\ Len(ret[1]) = 2
  /\ FGt(ret[1][1].match_score, ret[1][2].match_score)
  /\ ret[1][1].lyric.id < ret[1][2].lyric.id
  /\ ret[1] = SuggestionsIn("cli", call.args[1], call.args[2])

\* the adaptation calls made and not yet returned or failed
Outstanding == Len(requested) - Len(adaptedSuggestions)

\* C28: the adaptation calls of a request are made one after the other in
\* rank order: the call for rank i + 1 starts only in a step that leaves
\* every earlier call returned or failed, at most one call is outstanding
\* at any time, and a request makes at most 3 calls.
C28_AdaptationsOneAtATime ==
  /\ [](/\ Outstanding \in {0, 1}
        /\ Outstanding = 1 <=> pc = "adapting"
        /\ Len(requested) <= 3
        /\ \A j \in 1..Len(requested) :
             requested[j] = topSuggestions[j].lyric.id)
  /\ [][requested' # requested =>
          /\ requested' =
               Append(requested, topSuggestions'[Len(requested) + 1].lyric.id)
          /\ Len(adaptedSuggestions') = Len(requested)
          /\ Outstanding' = 1]_vars

\* the third call is outstanding; the first has failed and the second has
\* returned
C28_Witness ==
  /\ pc = "adapting"
  /\ Len(requested) = 3
  /\ Len(adaptedSuggestions) = 2
  /\ adaptedSuggestions[1].suggested_adaptation = <<>>
  /\ adaptedSuggestions[2].suggested_adaptation # <<>>
  /\ Outstanding = 1

\* the promise of the handler has settled
Settled == outcome # "none"

\* C29: every handler of the main process that opens the database closes
\* it exactly once, and before its promise settles, on every path: a normal
\* return, the early return on an empty vault, a failed analysis (the
\* promise rejects and no suggestions are returned) and failed adaptation
\* calls; and closing is the last thing the handler does with the
\* connection: no step of the handler follows it.
C29_ConnectionClosedOnce ==
  /\ [](/\ opened \in {0, 1}
        /\ closed \in {0, 1}
        /\ closed <= opened
        /\ pc # "idle" => opened = 1
        /\ Settled <=> pc = "done"
        /\ Settled => opened = 1 /\ closed = 1
        /\ outcome = "rejected" => result = <<>>
        /\ pc \in {"analyzing", "adapting", "closing"} => closed = 0)
  /\ [][/\ closed = 0
        /\ closed' = 1 => opened' = 1 /\ Settled']_vars

\* the analysis of ai:getSuggestions has failed: the promise is rejected
\* with no suggestions and the connection opened is closed
C29_Witness ==
  /\ call.fn = "ai:getSuggestions"
  /\ allLyrics # <<>>
  /\ inputAnalysis = <<>>
  /\ outcome = "rejected"
  /\ result = <<>>
  /\ opened = 1
  /\ closed = 1

\* the mood begins or ends with whitespace or a comma
SeparatorAtAnEnd(mood) ==
  mood # <<>> /\ (IsMoodSep(mood[1]) \/ IsMoodSep(mood[Len(mood)]))

IsEmptyWord(word) == word = <<>>

\* the words of the query mood, empty ones aside, that contain or are
\* contained in a word of the stored mood
RealSharedWords(queryMood, storedMood) ==
  SelectSeq(sharedMoodWords(moodWords(queryMood), moodWords(storedMood)),
            NonEmpty)

\* C30: the split of a mood keeps empty words.  When the query mood begins
\* or ends with a separator its words include an empty one, which every
\* word of a candidate contains: against every candidate with a non-empty
\* mood the empty word is among the shared words, the mood sub-score is
\* above 0, and calculateMatchScore returns a score above 0 with the
\* "Similar mood" reason, whether or not a mood word proper is shared.
C30_EmptyMoodWordShared ==
  ScoreReturned /\ SeparatorAtAnEnd(call.args[1].mood)
    /\ call.args[2].mood # <<>> =>
    LET queryMood  == call.args[1].mood
        storedMood == call.args[2].mood
    IN  /\ SelectSeq(moodWords(queryMood), IsEmptyWord) # <<>>
        /\ SelectSeq(sharedMoodWords(moodWords(queryMood),
                                     moodWords(storedMood)), IsEmptyWord)
             = SelectSeq(moodWords(queryMood), IsEmptyWord)
        /\ FGt(moodScore(call.args[1], call.args[2]), FZero)
        /\ FGt(ret[1].score, FZero)
        /\ ret[1].reasons = <<SimilarMoodText \o storedMood>>

\* " blue" against "sad": no mood word proper is shared, and the score is
\* above 0 with the mood reason
C30_Witness ==
  /\ ScoreReturned
  /\ call.args[1].mood = <<" ", "b", "l", "u", "e">>
  /\ call.args[2].mood = <<"s", "a", "d">>
  /\ RealSharedWords(call.args[1].mood, call.args[2].mood) = <<>>
  /\ moodScore(call.args[1], call.args[2]) = Lit(1, 2)
  /\ ret[1].reasons = <<SimilarMoodText \o call.args[2].mood>>

====
